---- MODULE Spec2Model ----
(***************************************************************************)
(* A state-machine model of the emulator core (crate `core`): the Console  *)
(* with its CPU, cartridge, work RAM, serial port, timer, PPU (Video),     *)
(* interrupt controller and high RAM, the address bus that dispatches      *)
(* reads and writes to them, and the run_frame scheduler.                  *)
(*                                                                         *)
(* Representation.  The byte arrays of the program (wram, hram, vram, oam, *)
(* the ROM, cartridge RAM, the tile and sprite caches, the frame buffer)   *)
(* are kept as functions that hold only the cells that differ from the     *)
(* value the array is initialised with; Get reads a cell, Put writes one.  *)
(* A panic of the Rust code (unreachable!, unimplemented!, an index out of *)
(* bounds, a failed assertion of the bit_field crate, an arithmetic        *)
(* overflow in a build with overflow checks) ends the process; the model   *)
(* records it in `panicked`.                                               *)
(***************************************************************************)
EXTENDS Integers, Sequences, FiniteSets, TLC

VARIABLES
    cpu,             \* CPU: registers, halt, ime, cycles
    cartridge,       \* Option<Cartridge>: kind "none" is None
    wram,            \* [u8; 8192]
    serial,          \* Serial: sb, sc, transfer_cycles
    timer,           \* Timer
    video,           \* Video
    interrupts,      \* Interrupts: if, ie
    hram,            \* [u8; 127]
    elapsed_cycles,  \* run_frame's local elapsed_cycles
    running,         \* TRUE while control is inside run_frame's loop
    frames,          \* number of run_frame calls that have returned
    stdout,          \* the bytes Serial::step has printed to standard output
    panicked,        \* TRUE once the code has panicked
    overflow_checks, \* TRUE in a build with overflow checks (debug), FALSE in release
    ops,             \* number of bus operations or CPU steps performed so far
    last_op,         \* history: the last operation performed and what it observed
    hist             \* history: what the run so far did (see HistNew)

vars == <<cpu, cartridge, wram, serial, timer, video, interrupts, hram,
          elapsed_cycles, running, frames, stdout, panicked, overflow_checks,
          ops, last_op, hist>>

-----------------------------------------------------------------------------
(* Values and bit operations *)

\* The value an operator yields when the code panics instead of returning.
Panic == 0 - 1

Byte == 0..255

\* BitField::get_bit
get_bit(v, n) == (v \div (2^n)) % 2 = 1

\* BitField::get_bits(lo..hi), hi exclusive
get_bits(v, lo, hi) == (v \div (2^lo)) % (2^(hi - lo))

\* BitField::set_bit
set_bit(v, n, b) ==
    v - (IF get_bit(v, n) THEN 2^n ELSE 0) + (IF b THEN 2^n ELSE 0)

\* BitField::set_bits asserts that the value fits into the range
bits_fit(x, lo, hi) == x < 2^(hi - lo)

\* BitField::set_bits(lo..hi, x), hi exclusive, for a value that fits
set_bits(v, lo, hi, x) == v - get_bits(v, lo, hi) * (2^lo) + x * (2^lo)

\* u8 & u8
RECURSIVE bit_and(_, _)
bit_and(x, y) ==
    IF x = 0 \/ y = 0 THEN 0
    ELSE (IF x % 2 = 1 /\ y % 2 = 1 THEN 1 ELSE 0) + 2 * bit_and(x \div 2, y \div 2)

\* u8 | u8
RECURSIVE bit_or(_, _)
bit_or(x, y) ==
    IF x = 0 THEN y
    ELSE IF y = 0 THEN x
    ELSE (IF x % 2 = 1 \/ y % 2 = 1 THEN 1 ELSE 0) + 2 * bit_or(x \div 2, y \div 2)

\* u8 ^ u8
RECURSIVE bit_xor(_, _)
bit_xor(x, y) ==
    IF x = 0 THEN y
    ELSE IF y = 0 THEN x
    ELSE (IF x % 2 # y % 2 THEN 1 ELSE 0) + 2 * bit_xor(x \div 2, y \div 2)

\* u8::trailing_zeros (8 for 0)
RECURSIVE trailing_zeros(_)
trailing_zeros(v) ==
    IF v = 0 THEN 8 ELSE IF v % 2 = 1 THEN 0 ELSE 1 + trailing_zeros(v \div 2)

\* F applied to x: names a value that is computed once and used several times
With(x, F(_)) == F(x)

\* An array all of whose cells hold the initial value
Empty == [i \in {} |-> 0]

\* array[i], where d is the value the array was initialised with
Get(f, i, d) == IF i \in DOMAIN f THEN f[i] ELSE d

\* array[i] = v
Put(f, i, v, d) ==
    IF v = d THEN [j \in DOMAIN f \ {i} |-> f[j]]
    ELSE [j \in DOMAIN f \cup {i} |-> IF j = i THEN v ELSE f[j]]

-----------------------------------------------------------------------------
(* rom.rs, cartridge.rs *)

\* ROM's Index: self.0[index], which panics past the end of the vector
rom_index(rom, index) ==
    IF index < rom.len THEN Get(rom.bytes, index, 0) ELSE Panic

\* ROM::cartridge_type
cartridge_type(rom) ==
    LET t == rom_index(rom, \h147)
    IN  IF t = 0 THEN "ROMOnly" ELSE IF t = 1 THEN "MBC1" ELSE "panic"

\* ROM::ram_size
ram_size(rom) ==
    LET c == rom_index(rom, \h149)
    IN  IF c = 0 THEN 0
        ELSE IF c = 1 THEN 2048
        ELSE IF c = 2 THEN 8192
        ELSE IF c = 3 THEN 32768
        ELSE Panic

\* Console.cartridge = None
NoCartridge ==
    [kind |-> "none", rom |-> [len |-> 0, bytes |-> Empty],
     ram |-> Empty, ram_len |-> 0, ram_enabled |-> FALSE,
     rom_bank |-> 1, ram_bank |-> 0, bank_mode |-> "ROM"]

\* Cartridge::from(rom), with MBC1::new; MBC0 has no state
cartridge_from(rom) ==
    [kind |-> cartridge_type(rom), rom |-> rom,
     ram |-> Empty,
     ram_len |-> IF cartridge_type(rom) = "MBC1" THEN ram_size(rom) ELSE 0,
     ram_enabled |-> FALSE, rom_bank |-> 1, ram_bank |-> 0, bank_mode |-> "ROM"]

\* The trait's default read_byte, which MBC0 uses
mbc0_read_byte(c, address) ==
    IF address <= \h7FFF THEN rom_index(c.rom, address) ELSE Panic

\* An MBC1::read_byte that reads cartridge RAM whether it is enabled or not
mbc1_read_byte_enabled(c, address) ==
    IF address <= \h3FFF THEN rom_index(c.rom, address)
    ELSE IF address <= \h7FFF
         THEN rom_index(c.rom, c.rom_bank * \h4000 + address - \h4000)
    ELSE IF address >= \hA000 /\ address <= \hBFFF
         THEN LET i == c.ram_bank * \h2000 + address - \hA000
              IN  IF i < c.ram_len THEN Get(c.ram, i, 0) ELSE Panic
    ELSE Panic

\* MBC1::read_byte
mbc1_read_byte(c, address) ==
    IF address <= \h3FFF THEN rom_index(c.rom, address)
    ELSE IF address <= \h7FFF
         THEN rom_index(c.rom, c.rom_bank * \h4000 + address - \h4000)
    ELSE IF address >= \hA000 /\ address <= \hBFFF
         THEN IF ~c.ram_enabled THEN \hFF
              ELSE LET i == c.ram_bank * \h2000 + address - \hA000
                   IN  IF i < c.ram_len THEN Get(c.ram, i, 0) ELSE Panic
    ELSE Panic

\* Cartridge::read_byte
cartridge_read_byte(c, address) ==
    IF c.kind = "MBC1" THEN mbc1_read_byte(c, address)
    ELSE mbc0_read_byte(c, address)

\* MBC1::write_byte; yields the cartridge and whether the write panicked
mbc1_write_byte(c, address, value) ==
    IF address <= \h1FFF
    THEN [c |-> [c EXCEPT !.ram_enabled = (get_bits(value, 0, 4) = \h0A)],
          panic |-> FALSE]
    ELSE IF address <= \h3FFF
    THEN IF bits_fit(value, 0, 5)
         THEN [c |-> [c EXCEPT !.rom_bank = set_bits(c.rom_bank, 0, 5, value)],
               panic |-> FALSE]
         ELSE [c |-> c, panic |-> TRUE]
    ELSE IF address <= \h5FFF
    THEN IF c.bank_mode = "ROM"
         THEN IF bits_fit(value, 5, 6)
              THEN [c |-> [c EXCEPT !.rom_bank = set_bits(c.rom_bank, 5, 6, value)],
                    panic |-> FALSE]
              ELSE [c |-> c, panic |-> TRUE]
         ELSE IF value <= 3
              THEN [c |-> [c EXCEPT !.ram_bank = value], panic |-> FALSE]
              ELSE [c |-> c, panic |-> TRUE]
    ELSE IF address <= \h7FFF
    THEN IF value = 0 THEN [c |-> [c EXCEPT !.bank_mode = "ROM"], panic |-> FALSE]
         ELSE IF value = 1 THEN [c |-> [c EXCEPT !.bank_mode = "RAM"], panic |-> FALSE]
         ELSE [c |-> c, panic |-> TRUE]
    ELSE IF address >= \hA000 /\ address <= \hBFFF
    THEN IF ~c.ram_enabled THEN [c |-> c, panic |-> FALSE]
         ELSE LET i == c.ram_bank * \h2000 + address - \hA000
              IN  IF i < c.ram_len
                  THEN [c |-> [c EXCEPT !.ram = Put(c.ram, i, value, 0)], panic |-> FALSE]
                  ELSE [c |-> c, panic |-> TRUE]
    ELSE [c |-> c, panic |-> TRUE]

\* Cartridge::write_byte; the trait's default write_byte (MBC0) does nothing
cartridge_write_byte(c, address, value) ==
    IF c.kind = "MBC1" THEN mbc1_write_byte(c, address, value)
    ELSE [c |-> c, panic |-> FALSE]

-----------------------------------------------------------------------------
(* video.rs: the stores and their caches *)

\* Sprite::default()
SpriteDefault ==
    [y |-> 0, x |-> 0, tile |-> 0, priority |-> "Above",
     y_flip |-> FALSE, x_flip |-> FALSE, palette |-> 0]

\* The modes numbered in the order the PPU goes through them
mode_number_in_order(m) ==
    IF m = "OAMRead" THEN 0 ELSE IF m = "VRAMRead" THEN 1 ELSE IF m = "HBlank" THEN 2 ELSE 3

\* Mode as u8
mode_number(m) ==
    IF m = "HBlank" THEN 0 ELSE IF m = "VBlank" THEN 1 ELSE IF m = "OAMRead" THEN 2 ELSE 3

\* Video::new()
VideoNew ==
    [vram |-> Empty, oam |-> Empty,
     lcdc |-> 0, stat |-> 0, scy |-> 0, scx |-> 0, ly |-> 0, lyc |-> 0,
     bgp |-> 0, obp0 |-> 0, obp1 |-> 0, wy |-> 0, wx |-> 0,
     mode_cycles |-> 0, mode |-> "OAMRead",
     framebuffer |-> Empty, tiles |-> Empty, sprites |-> Empty]

\* Video::read_byte
video_read_byte(v, address) ==
    IF address >= \h8000 /\ address <= \h9FFF
    THEN IF v.mode = "VRAMRead" THEN \hFF ELSE Get(v.vram, address - \h8000, 0)
    ELSE IF address >= \hFE00 /\ address <= \hFE9F
    THEN IF v.mode \in {"OAMRead", "VRAMRead"} THEN \hFF
         ELSE Get(v.oam, address - \hFE00, 0)
    ELSE Panic

\* A loop of write_vram that takes the bits of the value least significant first
RECURSIVE set_tile_row_lsb_first(_, _, _, _, _, _)
set_tile_row_lsb_first(tiles, tile_index, row, bit_to_set, value, x) ==
    IF x = 8 THEN tiles
    ELSE LET key == <<tile_index, row * 8 + x>>
             old == Get(tiles, key, 0)
             new == set_bit(old, bit_to_set, get_bit(value, x))
         IN  set_tile_row_lsb_first(Put(tiles, key, new, 0), tile_index, row, bit_to_set,
                                    value, x + 1)

\* The loop of write_vram: pixel row*8+x of the tile gets bit (7-x) of the value
RECURSIVE set_tile_row(_, _, _, _, _, _)
set_tile_row(tiles, tile_index, row, bit_to_set, value, x) ==
    IF x = 8 THEN tiles
    ELSE LET key == <<tile_index, row * 8 + x>>
             old == Get(tiles, key, 0)
             new == set_bit(old, bit_to_set, get_bit(value, 7 - x))
         IN  set_tile_row(Put(tiles, key, new, 0), tile_index, row, bit_to_set, value, x + 1)

\* Video::write_vram
write_vram(v, address, value) ==
    LET index == address - \h8000
        v1 == [v EXCEPT !.vram = Put(v.vram, index, value, 0)]
        byte == index % 16
    IN  IF address > \h97FF THEN v1
        ELSE [v1 EXCEPT !.tiles =
                  set_tile_row(v.tiles, index \div 16, byte \div 2,
                               IF byte % 2 = 0 THEN 0 ELSE 1, value, 0)]

\* Video::write_oam
write_oam(v, address, value) ==
    LET index == address - \hFE00
        sprite_index == index \div 4
        byte == index % 4
        sprite == Get(v.sprites, sprite_index, SpriteDefault)
        new == IF byte = 0 THEN [sprite EXCEPT !.y = value]
               ELSE IF byte = 1 THEN [sprite EXCEPT !.x = value]
               ELSE IF byte = 2 THEN [sprite EXCEPT !.tile = value]
               ELSE [sprite EXCEPT
                        !.priority = IF get_bit(value, 7) THEN "Behind" ELSE "Above",
                        !.y_flip = get_bit(value, 6),
                        !.x_flip = get_bit(value, 5),
                        !.palette = IF get_bit(value, 4) THEN 1 ELSE 0]
    IN  [v EXCEPT !.oam = Put(v.oam, index, value, 0),
                  !.sprites = Put(v.sprites, sprite_index, new, SpriteDefault)]

\* A Video::write_byte that keeps VRAM from the CPU in OAMRead as well
video_write_byte_oam_gating(v, address, value) ==
    IF v.mode \in {"OAMRead", "VRAMRead"} THEN v
    ELSE IF address >= \h8000 /\ address <= \h9FFF THEN write_vram(v, address, value)
    ELSE write_oam(v, address, value)

\* Video::write_byte; the bus only calls it with a VRAM or OAM address
video_write_byte(v, address, value) ==
    IF address >= \h8000 /\ address <= \h9FFF
    THEN IF v.mode = "VRAMRead" THEN v ELSE write_vram(v, address, value)
    ELSE IF v.mode \in {"OAMRead", "VRAMRead"} THEN v ELSE write_oam(v, address, value)

\* Video::coincidence_flag
coincidence_flag(v) == v.lyc = v.ly

-----------------------------------------------------------------------------
(* bus.rs *)

\* An echo address as an index of wram that leaves the echo apart from the RAM
echo_index_flat(address) == address - \hC000

\* usize::from(address) - 0xE000: an echo address as an index of wram
echo_index(address) == address - \hE000

\* AddressBus::read_byte. A bus b holds the components the AddressBus borrows.
bus_read_byte(b, address) ==
    IF address <= \h7FFF \/ (address >= \hA000 /\ address <= \hBFFF)
    THEN cartridge_read_byte(b.cartridge, address)
    ELSE IF (address >= \h8000 /\ address <= \h9FFF)
            \/ (address >= \hFE00 /\ address <= \hFE9F)
    THEN video_read_byte(b.video, address)
    ELSE IF address >= \hC000 /\ address <= \hDFFF THEN Get(b.wram, address - \hC000, 0)
    ELSE IF address >= \hE000 /\ address <= \hFDFF THEN Get(b.wram, echo_index(address), 0)
    ELSE IF address = \hFF01 THEN b.serial.sb
    ELSE IF address = \hFF02 THEN b.serial.sc
    ELSE IF address = \hFF04 THEN b.timer.div
    ELSE IF address = \hFF05 THEN b.timer.tima
    ELSE IF address = \hFF06 THEN b.timer.tma
    ELSE IF address = \hFF07 THEN b.timer.tac
    ELSE IF address = \hFF0F THEN b.interrupts.if
    ELSE IF address = \hFF40 THEN b.video.lcdc
    ELSE IF address = \hFF41
    THEN set_bits(set_bit(b.video.stat, 2, coincidence_flag(b.video)),
                  0, 2, mode_number(b.video.mode))
    ELSE IF address = \hFF42 THEN b.video.scy
    ELSE IF address = \hFF43 THEN b.video.scx
    ELSE IF address = \hFF44 THEN b.video.ly
    ELSE IF address = \hFF45 THEN b.video.lyc
    ELSE IF address = \hFF47 THEN b.video.bgp
    ELSE IF address = \hFF48 THEN b.video.obp0
    ELSE IF address = \hFF49 THEN b.video.obp1
    ELSE IF address = \hFF4A THEN b.video.wy
    ELSE IF address = \hFF4B THEN b.video.wx
    ELSE IF address >= \hFF80 /\ address <= \hFFFE THEN Get(b.hram, address - \hFF80, 0)
    ELSE IF address = \hFFFF THEN b.interrupts.ie
    ELSE \hFF

\* u16 + 1 as the build computes it: a panic with overflow checks, a wrap without
next_address(address) ==
    IF address < \hFFFF THEN address + 1
    ELSE IF overflow_checks THEN Panic ELSE 0

\* AddressBus::read_word
bus_read_word(b, address) ==
    LET low == bus_read_byte(b, address)
        a1 == next_address(address)
        high == IF a1 = Panic THEN Panic ELSE bus_read_byte(b, a1)
    IN  IF low = Panic \/ high = Panic THEN Panic ELSE high * 256 + low

RECURSIVE bus_write_byte(_, _, _)
\* The loop of the 0xFF46 arm of write_byte, OAM DMA from src, for the offsets
\* lo..hi-1 in order (split in halves to bound the depth of evaluation)
RECURSIVE dma_copy(_, _, _, _)
dma_copy(b, src, lo, hi) ==
    IF b.panic THEN b
    ELSE IF hi - lo = 1
    THEN LET value == bus_read_byte(b, src + lo)
         IN  IF value = Panic THEN [b EXCEPT !.panic = TRUE]
             ELSE bus_write_byte(b, \hFE00 + lo, value)
    ELSE LET mid == (lo + hi) \div 2
         IN  dma_copy(dma_copy(b, src, lo, mid), src, mid, hi)

\* AddressBus::write_byte
bus_write_byte(b, address, value) ==
    IF address <= \h7FFF \/ (address >= \hA000 /\ address <= \hBFFF)
    THEN LET r == cartridge_write_byte(b.cartridge, address, value)
         IN  [b EXCEPT !.cartridge = r.c, !.panic = r.panic]
    ELSE IF (address >= \h8000 /\ address <= \h9FFF)
            \/ (address >= \hFE00 /\ address <= \hFE9F)
    THEN [b EXCEPT !.video = video_write_byte(b.video, address, value)]
    ELSE IF address >= \hC000 /\ address <= \hDFFF
    THEN [b EXCEPT !.wram = Put(b.wram, address - \hC000, value, 0)]
    ELSE IF address >= \hE000 /\ address <= \hFDFF
    THEN [b EXCEPT !.wram = Put(b.wram, echo_index(address), value, 0)]
    ELSE IF address = \hFF01 THEN [b EXCEPT !.serial.sb = value]
    ELSE IF address = \hFF02 THEN [b EXCEPT !.serial.sc = value]
    ELSE IF address = \hFF04 THEN [b EXCEPT !.timer.div = value]
    ELSE IF address = \hFF05 THEN [b EXCEPT !.timer.tima = value]
    ELSE IF address = \hFF06 THEN [b EXCEPT !.timer.tma = value]
    ELSE IF address = \hFF07 THEN [b EXCEPT !.timer.tac = value]
    ELSE IF address = \hFF40 THEN [b EXCEPT !.video.lcdc = value]
    ELSE IF address = \hFF41
    THEN [b EXCEPT !.video.stat = set_bits(b.video.stat, 2, 8, get_bits(value, 2, 8))]
    ELSE IF address = \hFF42 THEN [b EXCEPT !.video.scy = value]
    ELSE IF address = \hFF43 THEN [b EXCEPT !.video.scx = value]
    ELSE IF address = \hFF45 THEN [b EXCEPT !.video.lyc = value]
    ELSE IF address = \hFF46 THEN dma_copy(b, value * 256, 0, 160)
    ELSE IF address = \hFF47 THEN [b EXCEPT !.video.bgp = value]
    ELSE IF address = \hFF48 THEN [b EXCEPT !.video.obp0 = value]
    ELSE IF address = \hFF49 THEN [b EXCEPT !.video.obp1 = value]
    ELSE IF address = \hFF4A THEN [b EXCEPT !.video.wy = value]
    ELSE IF address = \hFF4B THEN [b EXCEPT !.video.wx = value]
    ELSE IF address = \hFF0F THEN [b EXCEPT !.interrupts.if = value]
    ELSE IF address >= \hFF80 /\ address <= \hFFFE
    THEN [b EXCEPT !.hram = Put(b.hram, address - \hFF80, value, 0)]
    ELSE IF address = \hFFFF THEN [b EXCEPT !.interrupts.ie = value]
    ELSE b

\* AddressBus::write_word
bus_write_word(b, address, value) ==
    LET b1 == bus_write_byte(b, address, value % 256)
        a1 == next_address(address)
    IN  IF b1.panic THEN b1
        ELSE IF a1 = Panic THEN [b1 EXCEPT !.panic = TRUE]
        ELSE bus_write_byte(b1, a1, value \div 256)

\* AddressBus::new over the Console's fields
Bus ==
    [cartridge |-> cartridge, wram |-> wram, serial |-> serial, timer |-> timer,
     video |-> video, interrupts |-> interrupts, hram |-> hram, panic |-> FALSE]

-----------------------------------------------------------------------------
(* video.rs: rendering *)

\* The frame buffer is 160 x 144; the model keeps its first FbCols columns.
SCREEN_WIDTH == 160
SCREEN_HEIGHT == 144
FbCols == 2

\* Whether the model keeps frame-buffer cell i
fb_tracked(i) == i % SCREEN_WIDTH < FbCols

\* Video::palette: the shade (0 White .. 3 Black) of pixel index i under reg
palette(reg, i) == get_bits(reg, 2 * i, 2 * i + 2)

\* Video::display_enabled
display_enabled(v) == get_bit(v.lcdc, 7)

\* Video::background_address_mode
background_address_mode(v) == IF get_bit(v.lcdc, 4) THEN "x8000" ELSE "x8800"

\* Video::background_tile_map_display
background_tile_map_display(v) == IF get_bit(v.lcdc, 3) THEN \h9C00 ELSE \h9800

\* Video::sprites_enabled
sprites_enabled(v) == get_bit(v.lcdc, 1)

\* Video::background_enabled
background_enabled(v) == get_bit(v.lcdc, 0)

\* Video::coincidence_interrupt_enabled
coincidence_interrupt_enabled(v) == get_bit(v.stat, 6)

\* Video::oam_interrupt_enabled
oam_interrupt_enabled(v) == get_bit(v.stat, 5)

\* Video::vblank_interrupt_enabled
vblank_interrupt_enabled(v) == get_bit(v.stat, 4)

\* Video::hblank_interrupt_enabled
hblank_interrupt_enabled(v) == get_bit(v.stat, 3)

\* u8 as i8
as_i8(n) == IF n >= 128 THEN n - 256 ELSE n

\* Video::background_tile_map, cell (x, y) of the 256 x 256 result
background_tile_map(v, x, y) ==
    LET i == (y \div 8) * 32 + (x \div 8)
        tile_index == Get(v.vram, background_tile_map_display(v) + i - \h8000, 0)
        tile == IF background_address_mode(v) = "x8000" THEN tile_index
                ELSE 256 + as_i8(tile_index)
    IN  Get(v.tiles, <<tile, (y % 8) * 8 + (x % 8)>>, 0)

\* The first loop of render_scanline, for the columns the model keeps
RECURSIVE render_background(_, _, _)
render_background(v, fb, x) ==
    IF x = FbCols \/ x = SCREEN_WIDTH THEN fb
    ELSE LET index == v.ly * SCREEN_WIDTH + x
             shade == IF background_enabled(v)
                      THEN palette(v.bgp, background_tile_map(v, x, v.ly))
                      ELSE 0
         IN  render_background(v, Put(fb, index, shade, 0), x + 1)

\* scanline[x] of render_scanline: the background's pixel index, or usize::MAX
\* (here 4, which is no pixel index) when the background is off
scanline(v, x) == IF background_enabled(v) THEN background_tile_map(v, x, v.ly) ELSE 4

\* The inner loop of the sprite pass of render_scanline, pixel x of one sprite.
\* r is [fb, panic].
RECURSIVE render_sprite_pixels(_, _, _, _, _)
render_sprite_pixels(v, r, sprite, pixel_y_offset, x) ==
    IF x = 8 \/ r.panic THEN r
    ELSE LET pixel_x_offset == IF sprite.x_flip THEN 7 - x ELSE x
             pixel == Get(v.tiles, <<sprite.tile, pixel_y_offset * 8 + pixel_x_offset>>, 0)
             framebuffer_x == ((sprite.x - 8) % 256) + x
             framebuffer_index == v.ly * SCREEN_WIDTH + framebuffer_x
             reg == IF sprite.palette = 0 THEN v.obp0 ELSE v.obp1
         IN  IF pixel = 0 THEN render_sprite_pixels(v, r, sprite, pixel_y_offset, x + 1)
             ELSE IF sprite.x < 8 /\ overflow_checks THEN [r EXCEPT !.panic = TRUE]
             ELSE IF sprite.priority = "Behind" /\ framebuffer_x >= SCREEN_WIDTH
                  THEN [r EXCEPT !.panic = TRUE]
             ELSE IF sprite.priority = "Behind" /\ scanline(v, framebuffer_x) # 0
                  THEN render_sprite_pixels(v, r, sprite, pixel_y_offset, x + 1)
             ELSE IF framebuffer_index >= SCREEN_WIDTH * SCREEN_HEIGHT
                  THEN [r EXCEPT !.panic = TRUE]
             ELSE render_sprite_pixels(
                      v,
                      [r EXCEPT !.fb = IF fb_tracked(framebuffer_index)
                                       THEN Put(r.fb, framebuffer_index, palette(reg, pixel), 0)
                                       ELSE r.fb],
                      sprite, pixel_y_offset, x + 1)

\* The sprite pass of render_scanline, from sprite s on. r is [fb, panic].
RECURSIVE render_sprites(_, _, _)
render_sprites(v, r, s) ==
    IF s = 40 \/ r.panic THEN r
    ELSE LET sprite == Get(v.sprites, s, SpriteDefault)
             shown == /\ sprite.y > 0 /\ sprite.y < 160
                      /\ sprite.y - 16 <= v.ly
                      /\ sprite.y - 16 + 8 > v.ly
             offset == v.ly - (sprite.y - 16)
         IN  IF ~shown THEN render_sprites(v, r, s + 1)
             ELSE IF sprite.y < 16 /\ overflow_checks THEN [r EXCEPT !.panic = TRUE]
             ELSE render_sprites(
                      v,
                      render_sprite_pixels(v, r, sprite,
                                           IF sprite.y_flip THEN 7 - offset ELSE offset, 0),
                      s + 1)

\* Video::render_scanline; yields [v, panic]
render_scanline(v) ==
    LET bg == IF v.ly < SCREEN_HEIGHT
              THEN [fb |-> render_background(v, v.framebuffer, 0), panic |-> FALSE]
              ELSE [fb |-> v.framebuffer, panic |-> TRUE]
        r == IF sprites_enabled(v) THEN render_sprites(v, bg, 0) ELSE bg
    IN  [v |-> [v EXCEPT !.framebuffer = r.fb], panic |-> r.panic]

-----------------------------------------------------------------------------
(* video.rs: the mode state machine *)

OAM_READ_CYCLES == 80
VRAM_READ_CYCLES == 172
HBLANK_CYCLES == 204
VBLANK_LINE_CYCLES == 456
VBLANK_START_LINE == 143
LAST_LINE == 153

\* interrupts.push(i) under a condition
push_if(ints, cond, i) == IF cond THEN Append(ints, i) ELSE ints

\* An OAMRead arm that drops the cycles past the end of the mode
step_oam_read_dropping(v) ==
    IF v.mode_cycles >= OAM_READ_CYCLES
    THEN [v |-> [v EXCEPT !.mode_cycles = 0, !.mode = "VRAMRead"],
          interrupts |-> <<>>, panic |-> FALSE]
    ELSE [v |-> v, interrupts |-> <<>>, panic |-> FALSE]

\* The OAMRead arm of Video::step
step_oam_read(v) ==
    IF v.mode_cycles >= OAM_READ_CYCLES
    THEN [v |-> [v EXCEPT !.mode_cycles = @ - OAM_READ_CYCLES, !.mode = "VRAMRead"],
          interrupts |-> <<>>, panic |-> FALSE]
    ELSE [v |-> v, interrupts |-> <<>>, panic |-> FALSE]

\* A VRAMRead arm that requests LCDStat whatever STAT holds
step_vram_read_requesting(v) ==
    IF v.mode_cycles >= VRAM_READ_CYCLES
    THEN LET v1 == [v EXCEPT !.mode_cycles = @ - VRAM_READ_CYCLES, !.mode = "HBlank"]
             r == render_scanline(v1)
         IN  [v |-> r.v, interrupts |-> <<"LCDStat">>, panic |-> r.panic]
    ELSE [v |-> v, interrupts |-> <<>>, panic |-> FALSE]

\* The VRAMRead arm of Video::step
step_vram_read(v) ==
    IF v.mode_cycles >= VRAM_READ_CYCLES
    THEN LET v1 == [v EXCEPT !.mode_cycles = @ - VRAM_READ_CYCLES, !.mode = "HBlank"]
             r == render_scanline(v1)
         IN  [v |-> r.v,
              interrupts |-> push_if(<<>>, hblank_interrupt_enabled(v1), "LCDStat"),
              panic |-> r.panic]
    ELSE [v |-> v, interrupts |-> <<>>, panic |-> FALSE]

\* u8 += 1 as the build computes it: a panic with overflow checks, a wrap without
u8_inc(x) == IF x < 255 THEN x + 1 ELSE IF overflow_checks THEN Panic ELSE 0

\* An HBlank arm that enters VBlank without requesting the VBlank interrupt
step_hblank_silent(v) ==
    IF v.mode_cycles < HBLANK_CYCLES THEN [v |-> v, interrupts |-> <<>>, panic |-> FALSE]
    ELSE IF u8_inc(v.ly) = Panic THEN [v |-> v, interrupts |-> <<>>, panic |-> TRUE]
    ELSE LET v1 == [v EXCEPT !.mode_cycles = @ - HBLANK_CYCLES, !.ly = u8_inc(@)]
             i1 == push_if(<<>>, coincidence_flag(v1) /\ coincidence_interrupt_enabled(v1),
                           "LCDStat")
         IN  IF v1.ly = VBLANK_START_LINE
             THEN [v |-> [v1 EXCEPT !.mode = "VBlank"],
                   interrupts |-> push_if(i1, vblank_interrupt_enabled(v1), "LCDStat"),
                   panic |-> FALSE]
             ELSE [v |-> [v1 EXCEPT !.mode = "OAMRead"],
                   interrupts |-> push_if(i1, oam_interrupt_enabled(v1), "LCDStat"),
                   panic |-> FALSE]

\* An HBlank arm that enters VBlank one line later
step_hblank_late(v) ==
    IF v.mode_cycles < HBLANK_CYCLES THEN [v |-> v, interrupts |-> <<>>, panic |-> FALSE]
    ELSE IF u8_inc(v.ly) = Panic THEN [v |-> v, interrupts |-> <<>>, panic |-> TRUE]
    ELSE LET v1 == [v EXCEPT !.mode_cycles = @ - HBLANK_CYCLES, !.ly = u8_inc(@)]
             i1 == push_if(<<>>, coincidence_flag(v1) /\ coincidence_interrupt_enabled(v1),
                           "LCDStat")
         IN  IF v1.ly = VBLANK_START_LINE + 1
             THEN [v |-> [v1 EXCEPT !.mode = "VBlank"],
                   interrupts |-> push_if(Append(i1, "VBlank"),
                                          vblank_interrupt_enabled(v1), "LCDStat"),
                   panic |-> FALSE]
             ELSE [v |-> [v1 EXCEPT !.mode = "OAMRead"],
                   interrupts |-> push_if(i1, oam_interrupt_enabled(v1), "LCDStat"),
                   panic |-> FALSE]

\* The HBlank arm of Video::step
step_hblank(v) ==
    IF v.mode_cycles < HBLANK_CYCLES THEN [v |-> v, interrupts |-> <<>>, panic |-> FALSE]
    ELSE IF u8_inc(v.ly) = Panic THEN [v |-> v, interrupts |-> <<>>, panic |-> TRUE]
    ELSE LET v1 == [v EXCEPT !.mode_cycles = @ - HBLANK_CYCLES, !.ly = u8_inc(@)]
             i1 == push_if(<<>>, coincidence_flag(v1) /\ coincidence_interrupt_enabled(v1),
                           "LCDStat")
         IN  IF v1.ly = VBLANK_START_LINE
             THEN [v |-> [v1 EXCEPT !.mode = "VBlank"],
                   interrupts |-> push_if(Append(i1, "VBlank"),
                                          vblank_interrupt_enabled(v1), "LCDStat"),
                   panic |-> FALSE]
             ELSE [v |-> [v1 EXCEPT !.mode = "OAMRead"],
                   interrupts |-> push_if(i1, oam_interrupt_enabled(v1), "LCDStat"),
                   panic |-> FALSE]

\* A VBlank arm that requests the VBlank interrupt again when LY wraps
step_vblank_requesting(v) ==
    IF v.mode_cycles < VBLANK_LINE_CYCLES THEN [v |-> v, interrupts |-> <<>>, panic |-> FALSE]
    ELSE IF u8_inc(v.ly) = Panic THEN [v |-> v, interrupts |-> <<>>, panic |-> TRUE]
    ELSE LET v1 == [v EXCEPT !.mode_cycles = @ - VBLANK_LINE_CYCLES, !.ly = u8_inc(@)]
         IN  IF v1.ly > LAST_LINE
             THEN [v |-> [v1 EXCEPT !.mode = "OAMRead", !.ly = 0],
                   interrupts |-> <<"VBlank">>, panic |-> FALSE]
             ELSE [v |-> v1, interrupts |-> <<>>, panic |-> FALSE]

\* The VBlank arm of Video::step
step_vblank(v) ==
    IF v.mode_cycles < VBLANK_LINE_CYCLES THEN [v |-> v, interrupts |-> <<>>, panic |-> FALSE]
    ELSE IF u8_inc(v.ly) = Panic THEN [v |-> v, interrupts |-> <<>>, panic |-> TRUE]
    ELSE LET v1 == [v EXCEPT !.mode_cycles = @ - VBLANK_LINE_CYCLES, !.ly = u8_inc(@)]
             i1 == push_if(<<>>, coincidence_flag(v1) /\ coincidence_interrupt_enabled(v1),
                           "LCDStat")
         IN  IF v1.ly > LAST_LINE
             THEN [v |-> [v1 EXCEPT !.mode = "OAMRead", !.ly = 0],
                   interrupts |-> push_if(i1, oam_interrupt_enabled(v1), "LCDStat"),
                   panic |-> FALSE]
             ELSE [v |-> v1, interrupts |-> i1, panic |-> FALSE]

\* A Video::step that keeps counting mode cycles while the display is off
video_step_counting(v, cycles) ==
    LET v1 == [v EXCEPT !.mode_cycles = @ + cycles]
    IN  IF ~display_enabled(v)
        THEN [v |-> [v1 EXCEPT !.mode = "HBlank", !.ly = 0], interrupts |-> <<>>,
              panic |-> FALSE]
        ELSE IF v1.mode = "OAMRead" THEN step_oam_read(v1)
        ELSE IF v1.mode = "VRAMRead" THEN step_vram_read(v1)
        ELSE IF v1.mode = "HBlank" THEN step_hblank(v1)
        ELSE step_vblank(v1)

\* Video::step; yields [v, interrupts, panic]
video_step(v, cycles) ==
    IF ~display_enabled(v)
    THEN [v |-> [v EXCEPT !.mode = "HBlank", !.ly = 0], interrupts |-> <<>>, panic |-> FALSE]
    ELSE LET v1 == [v EXCEPT !.mode_cycles = @ + cycles]
         IN  IF v1.mode = "OAMRead" THEN step_oam_read(v1)
             ELSE IF v1.mode = "VRAMRead" THEN step_vram_read(v1)
             ELSE IF v1.mode = "HBlank" THEN step_hblank(v1)
             ELSE step_vblank(v1)

-----------------------------------------------------------------------------
(* timer.rs, serial.rs, interrupts.rs *)

\* Timer::new()
TimerNew ==
    [div |-> 0, tima |-> 0, tma |-> 0, tac |-> 0, divider_cycles |-> 0, timer_cycles |-> 0]

\* Serial::new()
SerialNew == [sb |-> 0, sc |-> 0, transfer_cycles |-> 0]

\* Interrupts::new()
InterruptsNew == [if |-> 0, ie |-> 0]

DIVIDER_PERIOD == 256

\* A loop of step_divider that leaves DIV at 0xFF instead of wrapping it
RECURSIVE step_divider_loop_saturating(_)
step_divider_loop_saturating(t) ==
    IF t.divider_cycles < DIVIDER_PERIOD THEN t
    ELSE step_divider_loop_saturating([t EXCEPT !.div = IF @ = 255 THEN 255 ELSE @ + 1,
                                                !.divider_cycles = @ - DIVIDER_PERIOD])

\* Timer::step_divider: the loop, from the accumulated cycles
RECURSIVE step_divider_loop(_)
step_divider_loop(t) ==
    IF t.divider_cycles < DIVIDER_PERIOD THEN t
    ELSE step_divider_loop([t EXCEPT !.div = (@ + 1) % 256,
                                     !.divider_cycles = @ - DIVIDER_PERIOD])

\* Timer::step_divider
step_divider(t, cycles) ==
    step_divider_loop([t EXCEPT !.divider_cycles = @ + cycles])

\* Timer::timer_enabled
timer_enabled(t) == get_bit(t.tac, 2)

\* Timer::get_freq: the match is on get_bits(0..1), the single bit 0 of TAC
get_freq(t) ==
    LET sel == get_bits(t.tac, 0, 1)
    IN  IF sel = 0 THEN 1024 ELSE IF sel = 1 THEN 16 ELSE IF sel = 2 THEN 64 ELSE 256

\* A loop of step_timer that lets TIMA wrap to 0x00 instead of reloading it
RECURSIVE step_timer_loop_wrapping(_)
step_timer_loop_wrapping(r) ==
    IF r.t.timer_cycles < get_freq(r.t) THEN r
    ELSE step_timer_loop_wrapping(
             [t |-> [r.t EXCEPT !.tima = (@ + 1) % 256,
                                !.timer_cycles = @ - get_freq(r.t)],
              has_overflown |-> r.has_overflown \/ r.t.tima = 255])

\* The loop of Timer::step_timer; r is [t, has_overflown]
RECURSIVE step_timer_loop(_)
step_timer_loop(r) ==
    IF r.t.timer_cycles < get_freq(r.t) THEN r
    ELSE step_timer_loop(
             [t |-> [r.t EXCEPT !.tima = IF @ = 255 THEN r.t.tma ELSE @ + 1,
                                !.timer_cycles = @ - get_freq(r.t)],
              has_overflown |-> r.has_overflown \/ r.t.tima = 255])

\* Timer::step_timer
step_timer(t, cycles) ==
    step_timer_loop([t |-> [t EXCEPT !.timer_cycles = @ + cycles], has_overflown |-> FALSE])

\* Timer::step; yields [t, interrupts]
timer_step(t, cycles) ==
    LET t1 == step_divider(t, cycles)
    IN  IF timer_enabled(t1)
        THEN LET r == step_timer(t1, cycles)
             IN  [t |-> r.t, interrupts |-> push_if(<<>>, r.has_overflown, "Timer")]
        ELSE [t |-> t1, interrupts |-> <<>>]

\* print!("{}", sb as char): the char U+0000..U+00FF written as UTF-8
print_char(b) ==
    IF b < 128 THEN <<b>> ELSE <<192 + (b \div 64), 128 + (b % 64)>>

SERIAL_TRANSFER_CYCLES == 8

\* Serial::step; yields [s, out, interrupts], out being what it printed
serial_step(s, cycles) ==
    IF s.sc = \h81
    THEN LET n == s.transfer_cycles + cycles
         IN  IF n >= SERIAL_TRANSFER_CYCLES
             THEN [s |-> [sb |-> \hFF, sc |-> \h01, transfer_cycles |-> 0],
                   out |-> print_char(s.sb), interrupts |-> <<"Serial">>]
             ELSE [s |-> [s EXCEPT !.transfer_cycles = n],
                   out |-> <<>>, interrupts |-> <<>>]
    ELSE [s |-> s, out |-> <<>>, interrupts |-> <<>>]

\* u8::from(Interrupt)
interrupt_bit(i) ==
    IF i = "VBlank" THEN 1
    ELSE IF i = "LCDStat" THEN 2
    ELSE IF i = "Timer" THEN 4
    ELSE IF i = "Serial" THEN 8
    ELSE 16

\* A request for each interrupt of a list that sets IF to the interrupt's bit
\* alone
RECURSIVE request_all_replacing(_, _)
request_all_replacing(ints, list) ==
    IF list = <<>> THEN ints
    ELSE request_all_replacing([ints EXCEPT !.if = interrupt_bit(Head(list))], Tail(list))

\* Interrupts::request for each interrupt of a list, in order
RECURSIVE request_all(_, _)
request_all(ints, list) ==
    IF list = <<>> THEN ints
    ELSE request_all([ints EXCEPT !.if = bit_or(@, interrupt_bit(Head(list)))], Tail(list))

\* The peripherals' catch-up of run_frame: Serial, Timer and Video step by
\* `cycles` and the interrupts they return are requested.  Yields the bus
\* with the stepped components, what was printed and the interrupts.
catch_up(b, cycles) ==
    With(<<serial_step(b.serial, cycles), timer_step(b.timer, cycles),
           video_step(b.video, cycles)>>,
         LAMBDA r :
            LET s == r[1]
                t == r[2]
                v == r[3]
                list == s.interrupts \o t.interrupts \o v.interrupts
            IN  [b |-> [b EXCEPT !.serial = s.s, !.timer = t.t, !.video = v.v,
                                 !.interrupts = request_all(b.interrupts, list),
                                 !.panic = v.panic],
                 out |-> s.out, interrupts |-> list, video_interrupts |-> v.interrupts])

-----------------------------------------------------------------------------
(* cpu.rs: registers and flags *)

\* Flag
ZERO == 128
SUBTRACT == 64
HALF_CARRY == 32
CARRY == 16

\* Flag::contains
flag_contains(f, flag) == bit_and(f, flag) = flag

\* Flag::insert
flag_insert(f, flag) == bit_or(f, flag)

\* Flag::remove
flag_remove(f, flag) == bit_and(f, 255 - flag)

\* Flag::set
flag_set(f, flag, cond) == IF cond THEN flag_insert(f, flag) ELSE flag_remove(f, flag)

\* CPU::new()
CpuNew ==
    [a |-> \h01, b |-> \h00, c |-> \h13, d |-> \h00, e |-> \hD8,
     f |-> ZERO + HALF_CARRY + CARRY, h |-> \h01, l |-> \h4D,
     pc |-> \h0100, sp |-> \hFFFE, halt |-> FALSE, ime |-> TRUE, cycles |-> 0]

\* Registers::get_af
get_af(r) == r.a * 256 + r.f

\* Registers::get_bc
get_bc(r) == r.b * 256 + r.c

\* Registers::get_de
get_de(r) == r.d * 256 + r.e

\* Registers::get_hl
get_hl(r) == r.h * 256 + r.l

\* A set_af that keeps the low four bits of F
set_af_unmasked(r, value) == [r EXCEPT !.a = value \div 256, !.f = value % 256]

\* Registers::set_af
set_af(r, value) == [r EXCEPT !.a = value \div 256, !.f = bit_and(value, \h00F0)]

\* Registers::set_bc
set_bc(r, value) == [r EXCEPT !.b = value \div 256, !.c = value % 256]

\* Registers::set_de
set_de(r, value) == [r EXCEPT !.d = value \div 256, !.e = value % 256]

\* Registers::set_hl
set_hl(r, value) == [r EXCEPT !.h = value \div 256, !.l = value % 256]

\* The register pairs of PUSH and POP
Pairs == {"bc", "de", "hl", "af"}

\* get_bc / get_de / get_hl / get_af by the pair's name
get_pair(r, p) ==
    IF p = "bc" THEN get_bc(r) ELSE IF p = "de" THEN get_de(r)
    ELSE IF p = "hl" THEN get_hl(r) ELSE get_af(r)

\* set_bc / set_de / set_hl / set_af by the pair's name
set_pair(r, p, value) ==
    IF p = "bc" THEN set_bc(r, value) ELSE IF p = "de" THEN set_de(r, value)
    ELSE IF p = "hl" THEN set_hl(r, value) ELSE set_af(r, value)

-----------------------------------------------------------------------------
(* cpu.rs: helpers.  A machine m is [cpu, b]: the CPU and the bus it is  *)
(* passed; b.panic records a panic.                                      *)

\* the machine after a panic
fail(m) == [m EXCEPT !.b.panic = TRUE]

\* u16 wrapping_add
wrapping_add16(x, y) == (x + y) % 65536

\* u16 wrapping_sub
wrapping_sub16(x, y) == (x - y) % 65536

\* CPU::get_n; yields [m, n], n being Panic when the read panicked
get_n(m) ==
    LET n == bus_read_byte(m.b, m.cpu.pc)
    IN  IF n = Panic THEN [m |-> fail(m), n |-> Panic]
        ELSE [m |-> [m EXCEPT !.cpu.pc = wrapping_add16(@, 1)], n |-> n]

\* CPU::get_nn; yields [m, nn]
get_nn(m) ==
    LET nn == bus_read_word(m.b, m.cpu.pc)
    IN  IF nn = Panic THEN [m |-> fail(m), nn |-> Panic]
        ELSE [m |-> [m EXCEPT !.cpu.pc = wrapping_add16(@, 2)], nn |-> nn]

\* A push that stores the word high byte first
push_big_endian(m, value) ==
    LET sp == wrapping_sub16(m.cpu.sp, 2)
    IN  [m EXCEPT !.cpu.sp = sp,
                  !.b = bus_write_word(m.b, sp, (value % 256) * 256 + (value \div 256))]

\* CPU::push
push(m, value) ==
    LET sp == wrapping_sub16(m.cpu.sp, 2)
    IN  [m EXCEPT !.cpu.sp = sp, !.b = bus_write_word(m.b, sp, value)]

\* CPU::pop; yields [m, pop]
pop(m) ==
    LET w == bus_read_word(m.b, m.cpu.sp)
    IN  IF w = Panic THEN [m |-> fail(m), pop |-> Panic]
        ELSE [m |-> [m EXCEPT !.cpu.sp = wrapping_add16(@, 2)], pop |-> w]

\* CPU::add
add(r, value) ==
    LET result == (r.a + value) % 256
        overflow == r.a + value > 255
        half_carry == (r.a % 16) + (value % 16) > 15
    IN  [r EXCEPT !.a = result,
                  !.f = flag_set(flag_set(flag_remove(flag_set(@, ZERO, result = 0), SUBTRACT),
                                          HALF_CARRY, half_carry), CARRY, overflow)]

\* CPU::adc
adc(r, value) ==
    LET carry == IF flag_contains(r.f, CARRY) THEN 1 ELSE 0
        result == (r.a + value + carry) % 256
        overflow == r.a + value + carry > 255
        half_carry == (r.a % 16) + (value % 16) + carry > 15
    IN  [r EXCEPT !.a = result,
                  !.f = flag_set(flag_set(flag_set(0, ZERO, result = 0),
                                          HALF_CARRY, half_carry), CARRY, overflow)]

\* CPU::sub
sub(r, value) ==
    LET result == (r.a - value) % 256
        underflow == value > r.a
        half_carry == (value % 16) > (r.a % 16)
    IN  [r EXCEPT !.a = result,
                  !.f = flag_set(flag_set(flag_insert(flag_set(@, ZERO, result = 0), SUBTRACT),
                                          HALF_CARRY, half_carry), CARRY, underflow)]

\* CPU::sbc
sbc(r, value) ==
    LET carry == IF flag_contains(r.f, CARRY) THEN 1 ELSE 0
        result == (r.a - value - carry) % 256
        underflow == value + carry > r.a
        half_carry == (value % 16) + carry > (r.a % 16)
    IN  [r EXCEPT !.a = result,
                  !.f = flag_set(flag_set(flag_insert(flag_set(0, ZERO, result = 0), SUBTRACT),
                                          HALF_CARRY, half_carry), CARRY, underflow)]

\* CPU::and
and(r, value) ==
    LET result == bit_and(r.a, value)
    IN  [r EXCEPT !.a = result,
                  !.f = flag_insert(flag_set(0, ZERO, result = 0), HALF_CARRY)]

\* CPU::xor
xor(r, value) ==
    LET result == bit_xor(r.a, value)
    IN  [r EXCEPT !.a = result, !.f = flag_set(0, ZERO, result = 0)]

\* CPU::or
or(r, value) ==
    LET result == bit_or(r.a, value)
    IN  [r EXCEPT !.a = result, !.f = flag_set(0, ZERO, result = 0)]

\* CPU::cp
cp(r, value) ==
    LET result == (r.a - value) % 256
        underflow == value > r.a
        half_carry == (value % 16) > (r.a % 16)
    IN  [r EXCEPT !.f = flag_set(flag_set(flag_insert(flag_set(@, ZERO, result = 0), SUBTRACT),
                                          HALF_CARRY, half_carry), CARRY, underflow)]

\* A CPU::inc that sets Carry when the value wraps, as an addition would
inc_carrying(r, reg) ==
    LET value == r[reg]
        result == (value + 1) % 256
        half_carry == value % 16 = 15
        f == flag_set(flag_set(flag_remove(flag_set(r.f, ZERO, result = 0), SUBTRACT),
                               HALF_CARRY, half_carry), CARRY, value = 255)
    IN  [[r EXCEPT !.f = f] EXCEPT ![reg] = result]

\* CPU::inc on register reg
inc(r, reg) ==
    LET value == r[reg]
        result == (value + 1) % 256
        half_carry == value % 16 = 15
        f == flag_set(flag_remove(flag_set(r.f, ZERO, result = 0), SUBTRACT),
                      HALF_CARRY, half_carry)
    IN  [[r EXCEPT !.f = f] EXCEPT ![reg] = result]

\* CPU::dec on register reg
dec(r, reg) ==
    LET value == r[reg]
        result == (value - 1) % 256
        half_carry == trailing_zeros(value) >= 4
        f == flag_set(flag_insert(flag_set(r.f, ZERO, result = 0), SUBTRACT),
                      HALF_CARRY, half_carry)
    IN  [[r EXCEPT !.f = f] EXCEPT ![reg] = result]

\* CPU::jr; yields the new pc, or Panic
jr(pc, offset) ==
    IF offset < 128 THEN wrapping_add16(pc, offset)
    ELSE IF offset = 128
         THEN IF overflow_checks THEN Panic ELSE wrapping_sub16(pc, \hFF80)
    ELSE wrapping_sub16(pc, 256 - offset)

\* CPU::call
call(m, value) == [push(m, m.cpu.pc) EXCEPT !.cpu.pc = value]

\* CPU::daa
daa(r) ==
    LET c == flag_contains(r.f, CARRY)
        hc == flag_contains(r.f, HALF_CARRY)
        n == flag_contains(r.f, SUBTRACT)
        adjust0 == bit_or(IF c THEN \h60 ELSE 0, IF hc THEN \h06 ELSE 0)
        adjust == IF n THEN adjust0
                  ELSE bit_or(bit_or(adjust0, IF r.a % 16 > 9 THEN \h06 ELSE 0),
                              IF r.a > \h99 THEN \h60 ELSE 0)
        a == IF n THEN (r.a - adjust) % 256 ELSE (r.a + adjust) % 256
    IN  [r EXCEPT !.a = a,
                  !.f = flag_set(flag_remove(flag_set(@, ZERO, a = 0), HALF_CARRY),
                                 CARRY, adjust >= \h60)]

\* CPU::cpl
cpl(r) == [r EXCEPT !.a = 255 - @, !.f = flag_insert(@, SUBTRACT + HALF_CARRY)]

\* CPU::scf
scf(r) == [r EXCEPT !.f = flag_insert(flag_remove(flag_remove(@, SUBTRACT), HALF_CARRY), CARRY)]

\* CPU::ccf
ccf(r) ==
    [r EXCEPT !.f = flag_set(flag_remove(flag_remove(@, SUBTRACT), HALF_CARRY),
                             CARRY, ~flag_contains(r.f, CARRY))]

-----------------------------------------------------------------------------
(* cpu.rs: the instructions the model executes *)

\* The operand register of the opcodes 0x04 + 8k (INC), 0x05 + 8k (DEC), 0x06 + 8k (LD r,n)
reg_of(opcode) ==
    LET k == opcode \div 8
    IN  IF k = 0 THEN "b" ELSE IF k = 1 THEN "c" ELSE IF k = 2 THEN "d"
        ELSE IF k = 3 THEN "e" ELSE IF k = 4 THEN "h" ELSE IF k = 5 THEN "l" ELSE "a"

\* The register pair of the opcodes 0xC1 + 16k (POP) and 0xC5 + 16k (PUSH)
pair_of(opcode) ==
    LET k == (opcode - \hC0) \div 16
    IN  IF k = 0 THEN "bc" ELSE IF k = 1 THEN "de" ELSE IF k = 2 THEN "hl" ELSE "af"

IncOpcodes == {\h04, \h0C, \h14, \h1C, \h24, \h2C, \h3C}
DecOpcodes == {\h05, \h0D, \h15, \h1D, \h25, \h2D, \h3D}
LdRNOpcodes == {\h06, \h0E, \h16, \h1E, \h26, \h2E, \h3E}
LdRRNNOpcodes == {\h01, \h11, \h21, \h31}
JrCcOpcodes == {\h20, \h28, \h30, \h38}
PopOpcodes == {\hC1, \hD1, \hE1, \hF1}
PushOpcodes == {\hC5, \hD5, \hE5, \hF5}
AluNOpcodes == {\hC6, \hCE, \hD6, \hDE, \hE6, \hEE, \hF6, \hFE}

\* The opcodes with no arm in the match of CPU::step ("Op code not implemented")
UndefinedOpcodes == {\hD3, \hDB, \hDD, \hE3, \hE4, \hEB, \hEC, \hED, \hF4, \hFC, \hFD}

\* The opcodes whose arm the model executes
ModelledOpcodes ==
    {\h00, \h08, \h10, \h18, \h22, \h27, \h2F, \h37, \h3F, \h76, \h77,
     \hC3, \hC9, \hCD, \hD9, \hE0, \hEA, \hF0, \hF3, \hFA, \hFB}
    \cup IncOpcodes \cup DecOpcodes \cup LdRNOpcodes \cup LdRRNNOpcodes \cup JrCcOpcodes
    \cup PopOpcodes \cup PushOpcodes \cup AluNOpcodes \cup UndefinedOpcodes

\* ld_bc_nn, ld_de_nn, ld_hl_nn, ld_sp_nn
ld_rr_nn(m, opcode) ==
    LET g == get_nn(m)
    IN  IF g.nn = Panic THEN [m |-> g.m, cycles |-> 12]
        ELSE [m |-> [g.m EXCEPT !.cpu =
                        IF opcode = \h01 THEN set_bc(@, g.nn)
                        ELSE IF opcode = \h11 THEN set_de(@, g.nn)
                        ELSE IF opcode = \h21 THEN set_hl(@, g.nn)
                        ELSE [@ EXCEPT !.sp = g.nn]],
              cycles |-> 12]

\* ld_b_n .. ld_a_n
ld_r_n(m, opcode) ==
    LET g == get_n(m)
    IN  IF g.n = Panic THEN [m |-> g.m, cycles |-> 8]
        ELSE [m |-> [g.m EXCEPT !.cpu[reg_of(opcode)] = g.n], cycles |-> 8]

\* ld_nn_sp
ld_nn_sp(m) ==
    LET g == get_nn(m)
    IN  IF g.nn = Panic THEN [m |-> g.m, cycles |-> 20]
        ELSE [m |-> [g.m EXCEPT !.b = bus_write_word(g.m.b, g.nn, g.m.cpu.sp)], cycles |-> 20]

\* jr_n
jr_n(m) ==
    LET g == get_n(m)
        target == jr(g.m.cpu.pc, g.n)
    IN  IF g.n = Panic THEN [m |-> g.m, cycles |-> 12]
        ELSE IF target = Panic THEN [m |-> fail(g.m), cycles |-> 12]
        ELSE [m |-> [g.m EXCEPT !.cpu.pc = target], cycles |-> 12]

\* The condition of jr_nz_n, jr_z_n, jr_nc_n, jr_c_n
jr_condition(f, opcode) ==
    IF opcode = \h20 THEN ~flag_contains(f, ZERO)
    ELSE IF opcode = \h28 THEN flag_contains(f, ZERO)
    ELSE IF opcode = \h30 THEN ~flag_contains(f, CARRY)
    ELSE flag_contains(f, CARRY)

\* jr_nz_n, jr_z_n, jr_nc_n, jr_c_n
jr_cc_n(m, opcode) ==
    LET g == get_n(m)
        target == jr(g.m.cpu.pc, g.n)
    IN  IF g.n = Panic THEN [m |-> g.m, cycles |-> 8]
        ELSE IF ~jr_condition(g.m.cpu.f, opcode) THEN [m |-> g.m, cycles |-> 8]
        ELSE IF target = Panic THEN [m |-> fail(g.m), cycles |-> 12]
        ELSE [m |-> [g.m EXCEPT !.cpu.pc = target], cycles |-> 12]

\* ldi_hl_a
ldi_hl_a(m) ==
    LET hl == get_hl(m.cpu)
    IN  [m |-> [m EXCEPT !.b = bus_write_byte(m.b, hl, m.cpu.a),
                         !.cpu = set_hl(@, wrapping_add16(hl, 1))],
         cycles |-> 8]

\* ld_hl_a
ld_hl_a(m) ==
    [m |-> [m EXCEPT !.b = bus_write_byte(m.b, get_hl(m.cpu), m.cpu.a)], cycles |-> 8]

\* pop_bc, pop_de, pop_hl, pop_af
pop_rr(m, opcode) ==
    LET g == pop(m)
    IN  IF g.pop = Panic THEN [m |-> g.m, cycles |-> 12]
        ELSE [m |-> [g.m EXCEPT !.cpu = set_pair(@, pair_of(opcode), g.pop)], cycles |-> 12]

\* push_bc, push_de, push_hl, push_af
push_rr(m, opcode) ==
    [m |-> push(m, get_pair(m.cpu, pair_of(opcode))), cycles |-> 16]

\* jp_nn
jp_nn(m) ==
    LET g == get_nn(m)
    IN  IF g.nn = Panic THEN [m |-> g.m, cycles |-> 16]
        ELSE [m |-> [g.m EXCEPT !.cpu.pc = g.nn], cycles |-> 16]

\* call_nn
call_nn(m) ==
    LET g == get_nn(m)
    IN  IF g.nn = Panic THEN [m |-> g.m, cycles |-> 24]
        ELSE [m |-> call(g.m, g.nn), cycles |-> 24]

\* ret
ret(m) ==
    LET g == pop(m)
    IN  IF g.pop = Panic THEN [m |-> g.m, cycles |-> 16]
        ELSE [m |-> [g.m EXCEPT !.cpu.pc = g.pop], cycles |-> 16]

\* reti
reti(m) ==
    LET g == pop(m)
    IN  IF g.pop = Panic THEN [m |-> g.m, cycles |-> 16]
        ELSE [m |-> [g.m EXCEPT !.cpu.pc = g.pop, !.cpu.ime = TRUE], cycles |-> 16]

\* add_a_n, adc_a_n, sub_n, sbc_a_n, and_n, xor_n, or_n, cp_n
alu_n(m, opcode) ==
    LET g == get_n(m)
    IN  IF g.n = Panic THEN [m |-> g.m, cycles |-> 8]
        ELSE [m |-> [g.m EXCEPT !.cpu =
                        IF opcode = \hC6 THEN add(@, g.n)
                        ELSE IF opcode = \hCE THEN adc(@, g.n)
                        ELSE IF opcode = \hD6 THEN sub(@, g.n)
                        ELSE IF opcode = \hDE THEN sbc(@, g.n)
                        ELSE IF opcode = \hE6 THEN and(@, g.n)
                        ELSE IF opcode = \hEE THEN xor(@, g.n)
                        ELSE IF opcode = \hF6 THEN or(@, g.n)
                        ELSE cp(@, g.n)],
              cycles |-> 8]

\* ldh_n_a
ldh_n_a(m) ==
    LET g == get_n(m)
    IN  IF g.n = Panic THEN [m |-> g.m, cycles |-> 12]
        ELSE [m |-> [g.m EXCEPT !.b = bus_write_byte(g.m.b, \hFF00 + g.n, g.m.cpu.a)],
              cycles |-> 12]

\* ldh_a_n
ldh_a_n(m) ==
    LET g == get_n(m)
        value == bus_read_byte(g.m.b, \hFF00 + g.n)
    IN  IF g.n = Panic THEN [m |-> g.m, cycles |-> 12]
        ELSE IF value = Panic THEN [m |-> fail(g.m), cycles |-> 12]
        ELSE [m |-> [g.m EXCEPT !.cpu.a = value], cycles |-> 12]

\* ld_nn_a
ld_nn_a(m) ==
    LET g == get_nn(m)
    IN  IF g.nn = Panic THEN [m |-> g.m, cycles |-> 16]
        ELSE [m |-> [g.m EXCEPT !.b = bus_write_byte(g.m.b, g.nn, g.m.cpu.a)], cycles |-> 16]

\* ld_a_nn
ld_a_nn(m) ==
    LET g == get_nn(m)
        value == bus_read_byte(g.m.b, g.nn)
    IN  IF g.nn = Panic THEN [m |-> g.m, cycles |-> 16]
        ELSE IF value = Panic THEN [m |-> fail(g.m), cycles |-> 16]
        ELSE [m |-> [g.m EXCEPT !.cpu.a = value], cycles |-> 16]

\* The match of CPU::step on the opcode, for the modelled opcodes; yields [m, cycles].
\* stop is unimplemented!(), an undefined opcode reaches the panic! of the last arm.
execute(m, opcode) ==
    IF opcode = \h00 THEN [m |-> m, cycles |-> 4]
    ELSE IF opcode \in LdRRNNOpcodes THEN ld_rr_nn(m, opcode)
    ELSE IF opcode \in IncOpcodes
         THEN [m |-> [m EXCEPT !.cpu = inc(@, reg_of(opcode))], cycles |-> 4]
    ELSE IF opcode \in DecOpcodes
         THEN [m |-> [m EXCEPT !.cpu = dec(@, reg_of(opcode))], cycles |-> 4]
    ELSE IF opcode \in LdRNOpcodes THEN ld_r_n(m, opcode)
    ELSE IF opcode = \h08 THEN ld_nn_sp(m)
    ELSE IF opcode = \h18 THEN jr_n(m)
    ELSE IF opcode \in JrCcOpcodes THEN jr_cc_n(m, opcode)
    ELSE IF opcode = \h22 THEN ldi_hl_a(m)
    ELSE IF opcode = \h27 THEN [m |-> [m EXCEPT !.cpu = daa(@)], cycles |-> 4]
    ELSE IF opcode = \h2F THEN [m |-> [m EXCEPT !.cpu = cpl(@)], cycles |-> 4]
    ELSE IF opcode = \h37 THEN [m |-> [m EXCEPT !.cpu = scf(@)], cycles |-> 4]
    ELSE IF opcode = \h3F THEN [m |-> [m EXCEPT !.cpu = ccf(@)], cycles |-> 4]
    ELSE IF opcode = \h76 THEN [m |-> [m EXCEPT !.cpu.halt = TRUE], cycles |-> 4]
    ELSE IF opcode = \h77 THEN ld_hl_a(m)
    ELSE IF opcode \in PopOpcodes THEN pop_rr(m, opcode)
    ELSE IF opcode \in PushOpcodes THEN push_rr(m, opcode)
    ELSE IF opcode = \hC3 THEN jp_nn(m)
    ELSE IF opcode = \hC9 THEN ret(m)
    ELSE IF opcode = \hCD THEN call_nn(m)
    ELSE IF opcode = \hD9 THEN reti(m)
    ELSE IF opcode \in AluNOpcodes THEN alu_n(m, opcode)
    ELSE IF opcode = \hE0 THEN ldh_n_a(m)
    ELSE IF opcode = \hEA THEN ld_nn_a(m)
    ELSE IF opcode = \hF0 THEN ldh_a_n(m)
    ELSE IF opcode = \hF3 THEN [m |-> [m EXCEPT !.cpu.ime = FALSE], cycles |-> 4]
    ELSE IF opcode = \hFA THEN ld_a_nn(m)
    ELSE IF opcode = \hFB THEN [m |-> [m EXCEPT !.cpu.ime = TRUE], cycles |-> 4]
    ELSE [m |-> fail(m), cycles |-> 0]

\* The vector of interrupt bit n
interrupt_vector(n) ==
    IF n = 0 THEN \h0040 ELSE IF n = 1 THEN \h0048 ELSE IF n = 2 THEN \h0050
    ELSE IF n = 3 THEN \h0058 ELSE IF n = 4 THEN \h0060 ELSE Panic

\* A dispatch that leaves the interrupt requested in IF
dispatch_unacknowledged(m, intf, n) ==
    With(push([m EXCEPT !.cpu.ime = FALSE], m.cpu.pc),
         LAMBDA m3 :
            IF interrupt_vector(n) = Panic THEN [m |-> fail(m3), handled |-> TRUE]
            ELSE [m |-> [m3 EXCEPT !.cpu.pc = interrupt_vector(n)], handled |-> TRUE])

\* The rest of handle_interrupts once an enabled interrupt is requested and ime
\* is set: interrupt n is acknowledged in IF (read as intf) and dispatched
dispatch(m, intf, n) ==
    With(push([m EXCEPT !.cpu.ime = FALSE,
                        !.b = bus_write_byte(m.b, \hFF0F, set_bit(intf, n, FALSE))],
              m.cpu.pc),
         LAMBDA m3 :
            IF interrupt_vector(n) = Panic THEN [m |-> fail(m3), handled |-> TRUE]
            ELSE [m |-> [m3 EXCEPT !.cpu.pc = interrupt_vector(n)], handled |-> TRUE])

\* A handle_interrupts that un-halts only to dispatch
handle_interrupts_halted(m) ==
    IF ~m.cpu.ime /\ ~m.cpu.halt THEN [m |-> m, handled |-> FALSE]
    ELSE LET inte == bus_read_byte(m.b, \hFFFF)
             intf == bus_read_byte(m.b, \hFF0F)
             triggered == bit_and(inte, intf)
         IN  IF triggered = 0 \/ ~m.cpu.ime THEN [m |-> m, handled |-> FALSE]
             ELSE dispatch([m EXCEPT !.cpu.halt = FALSE], intf, trailing_zeros(triggered))

\* A handle_interrupts that dispatches whatever ime is
handle_interrupts_unmasked(m) ==
    LET inte == bus_read_byte(m.b, \hFFFF)
        intf == bus_read_byte(m.b, \hFF0F)
        triggered == bit_and(inte, intf)
    IN  IF triggered = 0 THEN [m |-> m, handled |-> FALSE]
        ELSE dispatch([m EXCEPT !.cpu.halt = FALSE], intf, trailing_zeros(triggered))

\* A handle_interrupts that services the lowest interrupt requested in IF,
\* enabled or not, once one that is enabled is requested
handle_interrupts_requested(m) ==
    IF ~m.cpu.ime /\ ~m.cpu.halt THEN [m |-> m, handled |-> FALSE]
    ELSE LET inte == bus_read_byte(m.b, \hFFFF)
             intf == bus_read_byte(m.b, \hFF0F)
             triggered == bit_and(inte, intf)
         IN  IF triggered = 0 THEN [m |-> m, handled |-> FALSE]
             ELSE IF ~m.cpu.ime THEN [m |-> [m EXCEPT !.cpu.halt = FALSE], handled |-> FALSE]
             ELSE dispatch([m EXCEPT !.cpu.halt = FALSE], intf, trailing_zeros(intf))

\* CPU::handle_interrupts; yields [m, handled]
handle_interrupts(m) ==
    IF ~m.cpu.ime /\ ~m.cpu.halt THEN [m |-> m, handled |-> FALSE]
    ELSE LET inte == bus_read_byte(m.b, \hFFFF)
             intf == bus_read_byte(m.b, \hFF0F)
             triggered == bit_and(inte, intf)
         IN  IF triggered = 0 THEN [m |-> m, handled |-> FALSE]
             ELSE IF ~m.cpu.ime THEN [m |-> [m EXCEPT !.cpu.halt = FALSE], handled |-> FALSE]
             ELSE dispatch([m EXCEPT !.cpu.halt = FALSE], intf, trailing_zeros(triggered))

\* self.cycles += cycles, on what the opcode's function yielded
add_cycles(x) == [m |-> [x.m EXCEPT !.cpu.cycles = @ + x.cycles], cycles |-> x.cycles]

\* CPU::step from the fetch on
fetch_execute(m) ==
    With(bus_read_byte(m.b, m.cpu.pc),
         LAMBDA opcode :
            IF opcode = Panic THEN [m |-> fail(m), cycles |-> 0]
            ELSE add_cycles(execute([m EXCEPT !.cpu.pc = wrapping_add16(@, 1)], opcode)))

\* CPU::step; yields [m, cycles]
cpu_step(m) ==
    With(handle_interrupts(m),
         LAMBDA h :
            IF h.handled THEN [m |-> h.m, cycles |-> 16]
            ELSE IF h.m.cpu.halt THEN [m |-> h.m, cycles |-> 4]
            ELSE fetch_execute(h.m))

\* The opcode CPU::step is about to fetch, or Panic when it fetches none
next_opcode(m) ==
    With(handle_interrupts(m),
         LAMBDA h : IF h.handled \/ h.m.cpu.halt THEN Panic
                    ELSE bus_read_byte(h.m.b, h.m.cpu.pc))

-----------------------------------------------------------------------------
(* lib.rs: the Console *)

CPU_CYCLES_PER_FRAME == 70224

\* The register writes of insert_cartridge, in order
PostBootWrites ==
    <<  <<\hFF05, \h00>>, <<\hFF06, \h00>>, <<\hFF07, \h00>>, <<\hFF10, \h80>>,
        <<\hFF11, \hBF>>, <<\hFF12, \hF3>>, <<\hFF14, \hBF>>, <<\hFF16, \h3F>>,
        <<\hFF17, \h00>>, <<\hFF19, \hBF>>, <<\hFF1A, \h7F>>, <<\hFF1B, \hFF>>,
        <<\hFF1C, \h9F>>, <<\hFF1E, \hBF>>, <<\hFF20, \hFF>>, <<\hFF21, \h00>>,
        <<\hFF22, \h00>>, <<\hFF23, \hBF>>, <<\hFF24, \h77>>, <<\hFF25, \hF3>>,
        <<\hFF26, \hF1>>, <<\hFF40, \h91>>, <<\hFF42, \h00>>, <<\hFF43, \h00>>,
        <<\hFF45, \h00>>, <<\hFF47, \hFC>>, <<\hFF48, \hFF>>, <<\hFF49, \hFF>>,
        <<\hFF4A, \h00>>, <<\hFF4B, \h00>>, <<\hFFFF, \h00>>  >>

\* bus.write_byte for each write of a list, in order
RECURSIVE write_all(_, _)
write_all(b, writes) ==
    IF writes = <<>> \/ b.panic THEN b
    ELSE write_all(bus_write_byte(b, Head(writes)[1], Head(writes)[2]), Tail(writes))

\* Console::insert_cartridge, on the bus of the console that holds the cartridge
insert_cartridge(b, c) == write_all([b EXCEPT !.cartridge = c], PostBootWrites)

\* What handle_interrupts left: whether it dispatched, the CPU's ime, halt, pc
\* and sp, IF, and whether it panicked
check_of(h) ==
    [handled |-> h.handled, ime |-> h.m.cpu.ime, halt |-> h.m.cpu.halt, pc |-> h.m.cpu.pc,
     sp |-> h.m.cpu.sp, if |-> h.m.b.interrupts.if, panic |-> h.m.b.panic]

CheckNew ==
    [handled |-> FALSE, ime |-> TRUE, halt |-> FALSE, pc |-> 0, sp |-> 0, if |-> 0,
     panic |-> FALSE]

\* What the history variable holds before anything has run
HistNew ==
    [ly_entered |-> Empty,       \* LY value -> times entered in this run_frame
     display_on |-> FALSE,       \* LCDC bit 7 was set at every step of this run_frame
     setup |-> FALSE,            \* the all-black background was set up at every step of it
     undefined_opcode |-> FALSE, \* an undefined opcode has been fetched
     sent |-> <<>>,              \* SB at each write of 0x81 to SC
     serial_requests |-> 0,      \* Serial interrupts Serial::step has returned
     fed |-> 0,                  \* if the last step completed a transfer: the cycles
                                 \* Serial::step was fed since SC was written, else 0
     video_interrupts |-> <<>>,  \* what the last Video::step returned
     video |-> VideoNew,         \* the Video before the last operation
     cpu_video |-> VideoNew,     \* the Video as CPU::step of the last step left it
     cartridge |-> NoCartridge,  \* the cartridge before the last write to it
     enables |-> <<>>,           \* the bytes written to 0x0000-0x1FFF
     cpu_if |-> 0,               \* IF as CPU::step of the last step left it
     div_base |-> [div |-> 0, r |-> 0, fed |-> 0, written |-> FALSE],
                                 \* DIV and the divider's remainder after the last
                                 \* write to DIV (at first: as Timer::new leaves
                                 \* them), the cycles fed to Timer::step since,
                                 \* and whether the last step made that write
     source |-> <<>>,            \* before a write to 0xFF46: the 160 bytes the bus reads at its source
     prev_opcode |-> 0 - 1,      \* the opcode of the step before the last one
     pushed |-> [value |-> 0, sp |-> 0], \* the last PUSH: the pair's value and SP before it
     cpu |-> CpuNew,             \* the CPU before the last step
     interrupts |-> InterruptsNew, \* IE and IF before the last step
     checked |-> CheckNew,       \* the last step after its handle_interrupts
     memory_kept |-> TRUE,       \* CPU::step of the last step left the bus as it was
     timer |-> TimerNew,         \* the Timer as Timer::step found it in the last step
     timer_fed |-> 0,            \* cycles fed to Timer::step with TAC bit 2 set
     requested |-> <<>>,         \* the interrupts the peripherals returned in the last step
     video_fed |-> 0,            \* cycles fed to Video::step since the cartridge was inserted
     always_on |-> TRUE,         \* LCDC bit 7 was set at every Video::step since then
     vblank_requests |-> 0,      \* VBlank interrupts Video::step has returned
     halted_for |-> 0]           \* cycles of the steps in a row that left the CPU halted

OpNew == [kind |-> "new", address |-> 0, value |-> 0, result |-> 0, sp |-> 0]

\* Console::new(), in either build
Init ==
    /\ cpu = CpuNew
    /\ cartridge = NoCartridge
    /\ wram = Empty
    /\ serial = SerialNew
    /\ timer = TimerNew
    /\ video = VideoNew
    /\ interrupts = InterruptsNew
    /\ hram = Empty
    /\ elapsed_cycles = 0
    /\ running = FALSE
    /\ frames = 0
    /\ stdout = <<>>
    /\ panicked = FALSE
    /\ overflow_checks \in BOOLEAN
    /\ ops = 0
    /\ last_op = OpNew
    /\ hist = HistNew

\* The console's components take the values of bus b
SetBus(b) ==
    /\ cartridge' = b.cartridge
    /\ wram' = b.wram
    /\ serial' = b.serial
    /\ timer' = b.timer
    /\ video' = b.video
    /\ interrupts' = b.interrupts
    /\ hram' = b.hram

\* The process has panicked: what it held no longer matters and is left as it was
Abort ==
    /\ panicked' = TRUE
    /\ UNCHANGED <<cpu, cartridge, wram, serial, timer, video, interrupts, hram,
                   elapsed_cycles, running, frames, stdout>>

\* gb_load_rom: Cartridge::from(rom), then Console::insert_cartridge
InsertRom(rom) ==
    /\ ~panicked
    /\ ~running
    /\ cartridge.kind = "none"
    /\ \E c \in {cartridge_from(rom)} :
       \E b \in {insert_cartridge(Bus, c)} :
           /\ last_op' = [OpNew EXCEPT !.kind = "insert_cartridge"]
           /\ IF c.kind = "panic" \/ c.ram_len = Panic \/ b.panic
              THEN Abort
              ELSE /\ SetBus(b)
                   /\ UNCHANGED <<cpu, elapsed_cycles, running, frames, stdout, panicked>>
    /\ UNCHANGED <<overflow_checks, ops, hist>>

-----------------------------------------------------------------------------
(* The bus driven directly: the reads and writes a CPU load or store makes, *)
(* and the peripherals' catch-up of one scheduler iteration.                *)

MaxOps == 4

\* The entry point of a cartridge, at 0x0100: NOP; JP 0x0150
EntryPoint == <<\h00, \hC3, \h50, \h01>>

\* Where the program of a cartridge starts, after its header
PROGRAM_START == EntryPoint[3] + 256 * EntryPoint[4]

\* A ROM image of 32 KiB: the entry point at 0x0100, the cartridge type at
\* 0x147, the RAM size code at 0x149, `program` from 0x0150 on, and the bytes of
\* `data` (address -> byte) elsewhere
make_rom(program, ctype, ram_code, data) ==
    LET image == [a \in (DOMAIN data) \cup {\h100 + i - 1 : i \in 1..Len(EntryPoint)}
                        \cup {PROGRAM_START + i - 1 : i \in 1..Len(program)}
                        \cup {\h147, \h149} |->
                    IF a = \h147 THEN ctype
                    ELSE IF a = \h149 THEN ram_code
                    ELSE IF a >= \h100 /\ a < \h100 + Len(EntryPoint)
                    THEN EntryPoint[a - \h100 + 1]
                    ELSE IF a >= PROGRAM_START /\ a < PROGRAM_START + Len(program)
                    THEN program[a - PROGRAM_START + 1]
                    ELSE data[a]]
    IN  [len |-> 32768,
         bytes |-> [a \in {x \in DOMAIN image : image[x] # 0} |-> image[a]]]

\* Two bytes of data in ROM bank 0, at 0x0A00 and 0x0A03
BusData == [a \in {\h0A00, \h0A03} |-> IF a = \h0A00 THEN \h5A ELSE \hF0]

\* A ROM-only cartridge and an MBC1 cartridge with 2 KiB of RAM
BusROMs == {make_rom(<<>>, 0, 0, BusData), make_rom(<<>>, 1, 1, BusData)}

\* The writes the bus is driven with, as <<address, value>>: enable cartridge
\* RAM, tile data, cartridge RAM, WRAM, the last byte of its echo, an OAM
\* position and an OAM flags byte, display off, and OAM DMA from ROM (0x0A00)
\* and from WRAM (0xC000)
Writes ==
    {<<\h0000, \h0A>>, <<\h8000, \hC0>>, <<\hA000, \h11>>, <<\hC000, \h11>>,
     <<\hFDFF, \h22>>, <<\hFE00, \h11>>, <<\hFE03, \hC0>>, <<\hFF40, \h11>>,
     <<\hFF46, \h0A>>, <<\hFF46, \hC0>>}

\* ROM, VRAM, cartridge RAM, WRAM, its echo, OAM, the unusable area, unmapped I/O
ReadAddresses == {\h0A00, \h8000, \hA000, \hC000, \hE000, \hFE00, \hFEA0, \hFF03}

\* The least and the greatest cost of a CPU step
CatchupCycles == {4, 24}

\* gb_load_rom with one of the bus ROMs
InsertCartridge == \E rom \in BusROMs : InsertRom(rom)

\* What the bus reads at the 160 source addresses of a DMA from page `value`
dma_source(b, value) == [i \in 0..159 |-> bus_read_byte(b, value * 256 + i)]

\* AddressBus::write_byte(address, value)
BusWrite ==
    /\ ~panicked
    /\ cartridge.kind # "none"
    /\ ops < MaxOps
    /\ \E w \in Writes :
          \E address \in {w[1]}, value \in {w[2]}, b \in {bus_write_byte(Bus, w[1], w[2])} :
              /\ last_op' = [OpNew EXCEPT !.kind = "write", !.address = address,
                                          !.value = value]
              /\ hist' = [hist EXCEPT !.source = IF address = \hFF46
                                                 THEN dma_source(Bus, value) ELSE <<>>,
                                      !.video = video]
              /\ IF b.panic THEN Abort
                 ELSE /\ SetBus(b)
                      /\ UNCHANGED <<cpu, elapsed_cycles, running, frames, stdout, panicked>>
    /\ ops' = ops + 1
    /\ UNCHANGED overflow_checks

\* AddressBus::read_byte(address)
BusRead ==
    /\ ~panicked
    /\ cartridge.kind # "none"
    /\ ops < MaxOps
    /\ \E address \in ReadAddresses :
          LET value == bus_read_byte(Bus, address)
          IN  /\ last_op' = [OpNew EXCEPT !.kind = "read", !.address = address,
                                          !.result = value]
              /\ panicked' = (value = Panic)
    /\ ops' = ops + 1
    /\ hist' = [hist EXCEPT !.source = <<>>]
    /\ UNCHANGED <<cpu, cartridge, wram, serial, timer, video, interrupts, hram,
                   elapsed_cycles, running, frames, stdout, overflow_checks>>

\* The catch-up of one iteration of run_frame: the peripherals step by `cycles`
Catchup ==
    /\ ~panicked
    /\ cartridge.kind # "none"
    /\ ops < MaxOps
    /\ \E cycles \in CatchupCycles :
          \E r \in {catch_up(Bus, cycles)} :
              /\ last_op' = [OpNew EXCEPT !.kind = "catch_up", !.value = cycles]
              /\ hist' = [hist EXCEPT !.source = <<>>,
                                      !.video_interrupts = r.video_interrupts,
                                      !.video = video]
              /\ IF r.b.panic THEN Abort
                 ELSE /\ SetBus(r.b)
                      /\ stdout' = stdout \o r.out
                      /\ UNCHANGED <<cpu, elapsed_cycles, running, frames, panicked>>
    /\ ops' = ops + 1
    /\ UNCHANGED overflow_checks

NextBus == InsertCartridge \/ BusWrite \/ BusRead \/ Catchup

SpecBus == Init /\ [][NextBus]_vars

-----------------------------------------------------------------------------
(* lib.rs: run_frame, one action per iteration of its loop *)

MaxFrames == 2

\* The background is set up all black: LCDC = 0x91, BGP = 0xE4, the 16 bytes of
\* tile 0 are 0xFF and every entry of the tile map at 0x9800 is 0
black_setup(v) ==
    /\ v.lcdc = \h91
    /\ v.bgp = \hE4
    /\ \A i \in 0..15 : Get(v.vram, i, 0) = \hFF
    /\ \A i \in DOMAIN v.vram : i >= \h1800 /\ i <= \h1BFF => v.vram[i] = 0

\* A run_frame whose timer runs for four cycles when there is no cartridge
RunFrameEnterTicking ==
    /\ ~panicked
    /\ ~running
    /\ frames < MaxFrames
    /\ elapsed_cycles' = 0
    /\ IF cartridge.kind = "none"
       THEN /\ running' = FALSE /\ frames' = frames + 1
            /\ timer' = [timer EXCEPT !.divider_cycles = @ + 4]
       ELSE /\ running' = TRUE /\ frames' = frames
            /\ timer' = timer
    /\ last_op' = [OpNew EXCEPT !.kind = "run_frame"]
    /\ hist' = [hist EXCEPT !.ly_entered = Empty,
                            !.display_on = display_enabled(video),
                            !.setup = black_setup(video)]
    /\ UNCHANGED <<cpu, cartridge, wram, serial, video, interrupts, hram,
                   stdout, panicked, overflow_checks, ops>>

\* gb_run_frame: run_frame up to the test of its loop. Without a cartridge
\* it returns at once.
RunFrameEnter ==
    /\ ~panicked
    /\ ~running
    /\ frames < MaxFrames
    /\ elapsed_cycles' = 0
    /\ IF cartridge.kind = "none"
       THEN running' = FALSE /\ frames' = frames + 1
       ELSE running' = TRUE /\ frames' = frames
    /\ last_op' = [OpNew EXCEPT !.kind = "run_frame"]
    /\ hist' = [hist EXCEPT !.ly_entered = Empty,
                            !.display_on = display_enabled(video),
                            !.setup = black_setup(video)]
    /\ UNCHANGED <<cpu, cartridge, wram, serial, timer, video, interrupts, hram,
                   stdout, panicked, overflow_checks, ops>>

\* The history after an iteration: `before` is the history with the CPU and
\* the interrupt registers the iteration started from, m is the machine after
\* CPU::step, v the Video after its step, cu what the catch-up yielded, opcode
\* what the CPU fetched
step_history(before, m, v, cu, opcode, cycles) ==
    [before EXCEPT
        !.memory_kept = (m.b = Bus),
        !.timer = m.b.timer,
        !.timer_fed = IF timer_enabled(m.b.timer) THEN @ + cycles ELSE @,
        !.requested = cu.interrupts,
        !.video_fed = @ + cycles,
        !.always_on = @ /\ display_enabled(m.b.video),
        !.vblank_requests = @ + Len(SelectSeq(cu.interrupts, LAMBDA i : i = "VBlank")),
        !.halted_for = IF m.cpu.halt THEN @ + cycles ELSE 0,
        !.ly_entered = IF v.ly # m.b.video.ly
                       THEN Put(@, v.ly, Get(@, v.ly, 0) + 1, 0) ELSE @,
        !.display_on = @ /\ display_enabled(m.b.video),
        !.setup = @ /\ black_setup(m.b.video),
        !.undefined_opcode = @ \/ opcode \in UndefinedOpcodes,
        !.sent = IF m.b.serial.sc = \h81 /\ serial.sc # \h81
                 THEN Append(@, m.b.serial.sb) ELSE @,
        !.serial_requests = @ + Len(SelectSeq(cu.interrupts, LAMBDA i : i = "Serial")),
        !.fed = IF cu.out # <<>> THEN m.b.serial.transfer_cycles + cycles ELSE 0,
        !.video_interrupts = cu.video_interrupts,
        !.video = video,
        !.cpu_video = m.b.video,
        !.cpu_if = m.b.interrupts.if,
        !.div_base = IF opcode = \hE0 /\ bus_read_byte(Bus, cpu.pc + 1) = \h04
                     THEN [div |-> m.b.timer.div, r |-> m.b.timer.divider_cycles,
                           fed |-> cycles, written |-> TRUE]
                     ELSE [@ EXCEPT !.fed = @ + cycles, !.written = FALSE],
        !.source = <<>>,
        !.prev_opcode = IF last_op.kind = "step" THEN last_op.value ELSE Panic,
        !.pushed = IF opcode \in PushOpcodes
                   THEN [value |-> get_pair(cpu, pair_of(opcode)), sp |-> cpu.sp]
                   ELSE @]

\* One iteration of the loop of run_frame: CPU::step, then the peripherals catch
\* up by the cycles it returned and elapsed_cycles grows by them
FrameStep ==
    /\ ~panicked
    /\ running
    /\ elapsed_cycles <= CPU_CYCLES_PER_FRAME
    /\ \E opcode \in {next_opcode([cpu |-> cpu, b |-> Bus])},
          r \in {cpu_step([cpu |-> cpu, b |-> Bus])},
          h \in {check_of(handle_interrupts([cpu |-> cpu, b |-> Bus]))} :
       \E cu \in {catch_up(r.m.b, r.cycles)},
          before \in {[hist EXCEPT !.cpu = cpu, !.interrupts = interrupts, !.checked = h]} :
           /\ opcode = Panic \/ opcode \in ModelledOpcodes
           /\ last_op' = [kind |-> "step", address |-> cpu.pc, value |-> opcode,
                          result |-> r.cycles, sp |-> cpu.sp]
           /\ IF r.m.b.panic
              THEN /\ Abort
                   /\ hist' = [before EXCEPT
                                 !.undefined_opcode = @ \/ opcode \in UndefinedOpcodes]
              ELSE /\ hist' = step_history(before, r.m, cu.b.video, cu, opcode, r.cycles)
                   /\ IF cu.b.panic
                      THEN Abort
                      ELSE /\ cpu' = r.m.cpu
                           /\ SetBus(cu.b)
                           /\ stdout' = stdout \o cu.out
                           /\ elapsed_cycles' = elapsed_cycles + r.cycles
                           /\ UNCHANGED <<running, frames, panicked>>
    /\ ops' = ops + 1
    /\ UNCHANGED overflow_checks

\* The loop of run_frame ends and run_frame returns
RunFrameReturn ==
    /\ ~panicked
    /\ running
    /\ elapsed_cycles > CPU_CYCLES_PER_FRAME
    /\ running' = FALSE
    /\ frames' = frames + 1
    /\ last_op' = [OpNew EXCEPT !.kind = "return"]
    /\ UNCHANGED <<cpu, cartridge, wram, serial, timer, video, interrupts, hram,
                   elapsed_cycles, stdout, panicked, overflow_checks, ops, hist>>

\* n NOPs
nops(n) == [i \in 1..n |-> 0]

\* A program followed by a jump to that jump (JP nn)
then_loop(program) ==
    LET target == PROGRAM_START + Len(program)
    IN  program \o <<\hC3, target % 256, target \div 256>>

\* LD A,(0xA000) on a cartridge without RAM
LoadCartridgeRamProgram == then_loop(<<\hFA, \h00, \hA0>>)

\* An undefined opcode
UndefinedProgram == <<\hD3>>

\* Display off (LD A,0x11; LDH (0x40),A), 62 NOPs, display on (LD A,0x91;
\* LDH (0x40),A), then the loop
DriftProgram ==
    then_loop(<<\h3E, \h11, \hE0, \h40>> \o nops(62) \o <<\h3E, \h91, \hE0, \h40>>)

\* SB = 0x80 (LD A,0x80; LDH (0x01),A), SC = 0x81 (LD A,0x81; LDH (0x02),A), loop
SerialProgram == then_loop(<<\h3E, \h80, \hE0, \h01, \h3E, \h81, \hE0, \h02>>)

\* Display off, HL = 0x8000, A = 0xFF, sixteen LDI (HL),A: tile 0 all 0xFF,
\* BGP = 0xE4, LCDC = 0x91, loop
BlackProgram ==
    then_loop(<<\h3E, \h11, \hE0, \h40, \h21, \h00, \h80, \h3E, \hFF>>
              \o [i \in 1..16 |-> \h22]
              \o <<\h3E, \hE4, \hE0, \h47, \h3E, \h91, \hE0, \h40>>)

\* BGP = 0xFF (every colour black), 240 NOPs while two lines are drawn, display
\* off, loop
DisplayOffProgram ==
    then_loop(<<\h3E, \hFF, \hE0, \h47>> \o nops(240) \o <<\h3E, \h11, \hE0, \h40>>)

\* STAT = s (LD A,s; LDH (0x41),A), LYC = c (LD A,c; LDH (0x45),A), loop: for
\* <<s, c>> the coincidence interrupt alone with LYC on line 0, on a drawn line,
\* on the first and on the last line of VBlank, no STAT interrupt at all,
\* every STAT interrupt at once, and the HBlank and OAM interrupts alone
LycPrograms ==
    {then_loop(<<\h3E, r[1], \hE0, \h41, \h3E, r[2], \hE0, \h45>>) :
        r \in {<<\h40, 0>>, <<\h40, 1>>, <<\h40, 143>>, <<\h40, 153>>,
                <<\h00, 0>>, <<\h78, 144>>, <<\h28, 0>>}}

\* A program followed by a jump back to its start
looped(program) == program \o <<\hC3, PROGRAM_START % 256, PROGRAM_START \div 256>>

\* Over and over, at a period of 112 cycles that shifts against the 456 of a
\* line: store A to VRAM and load it back (LD (0x8000),A; LD A,(0x8000)), store
\* A to OAM and load it back (LD (0xFE00),A; LD A,(0xFE00)), ADD A,0x29, store
\* A to STAT and load STAT (LDH (0x41),A; LDH A,(0x41))
AccessProgram ==
    looped(<<\hEA, \h00, \h80, \hFA, \h00, \h80, \hEA, \h00, \hFE, \hFA, \h00, \hFE,
             \hC6, \h29, \hE0, \h41, \hF0, \h41>>)

\* Over and over: a delay of sixteen rounds of 256 times DEC B; JR NZ (LD C,16;
\* LD B,0; DEC B; JR NZ,-3; DEC C; JR NZ,-8) that ends in VBlank, then LY = 0x99
\* (LD A,0x99; LDH (0x44),A), display off (LD A,0x11; LDH (0x40),A) and
\* display on (LD A,0x91; LDH (0x40),A)
ToggleProgram ==
    looped(<<\h0E, \h10, \h06, \h00, \h05, \h20, \hFD, \h0D, \h20, \hF8,
             \h3E, \h99, \hE0, \h44, \h3E, \h11, \hE0, \h40, \h3E, \h91, \hE0, \h40>>)

\* Display off (LD A,0x11; LDH (0x40),A), 0xFF to byte `row` of tile 0 (LD A,0xFF;
\* LD (0x8000 + row),A), sprite 0 given y, x and flags (LD A,n; LD (0xFE00),A
\* and so on for 0xFE01, 0xFE03), display, background and sprites on (LD A,0x93;
\* LDH (0x40),A), loop
sprite_program(row, y, x, flags) ==
    then_loop(<<\h3E, \h11, \hE0, \h40, \h3E, \hFF, \hEA, row, \h80,
                \h3E, y, \hEA, \h00, \hFE, \h3E, x, \hEA, \h01, \hFE,
                \h3E, flags, \hEA, \h03, \hFE, \h3E, \h93, \hE0, \h40>>)

\* A sprite on line 1 at x = 168, past the right edge; one at y = 10, above the
\* top edge, and x = 0, behind the background; one on line 1 at x = 0, left of
\* the left edge, behind the background
SpritePrograms ==
    {sprite_program(\h00, 17, 168, \h00), sprite_program(\h0E, 10, 0, \h80),
     sprite_program(\h00, 17, 0, \h80)}

\* The ROM-only cartridges run_frame is run with
FramePrograms ==
    {LoadCartridgeRamProgram, UndefinedProgram, DriftProgram, SerialProgram,
     BlackProgram, DisplayOffProgram, AccessProgram, ToggleProgram}
    \cup LycPrograms \cup SpritePrograms

\* gb_load_rom with the ROM of one of the frame programs
InsertProgram == \E program \in FramePrograms : InsertRom(make_rom(program, 0, 0, Empty))

\* The program of the cartridge, as make_rom placed it
runs(program) == cartridge.kind # "none" /\ cartridge.rom = make_rom(program, 0, 0, Empty)

NextFrame == InsertProgram \/ RunFrameEnter \/ FrameStep \/ RunFrameReturn

SpecFrame == Init /\ [][NextFrame]_vars

-----------------------------------------------------------------------------
(* The frame-level claims, under SpecFrame *)

\* C1: run_frame on a console with a cartridge whose program executes only
\* defined opcodes terminates (it does not panic inside the loop), and when it
\* returns the cycle costs of the CPU steps it ran total at least 70,224 and at
\* most 70,224 + 24.
C1_FrameCycles ==
    ~hist.undefined_opcode =>
        /\ ~(panicked /\ running)
        /\ last_op.kind = "return" =>
              /\ elapsed_cycles >= CPU_CYCLES_PER_FRAME
              /\ elapsed_cycles <= CPU_CYCLES_PER_FRAME + 24

\* C2: over one run_frame during which the display was enabled (LCDC bit 7)
\* throughout, LY takes every value in 0..153 and each value is entered exactly
\* once.
C2_EveryLineOnce ==
    (last_op.kind = "return" /\ hist.display_on) =>
        \A y \in 0..LAST_LINE : Get(hist.ly_entered, y, 0) = 1

\* C3: after a program stored b in SB and wrote 0x81 to SC, the serial port has
\* emitted exactly b, once, and requested the Serial interrupt once (so what was
\* printed is the bytes b of the transfers started, and the Serial interrupts
\* requested are as many); the step that completes the transfer has fed at
\* least 8 cycles to Serial::step, sets IF bit 3 and leaves SB = 0xFF, SC = 0x01.
C3_SerialTransfer ==
    /\ serial.sc # \h81 =>
          /\ stdout = hist.sent
          /\ hist.serial_requests = Len(hist.sent)
    /\ hist.fed > 0 =>
          /\ hist.fed >= SERIAL_TRANSFER_CYCLES
          /\ get_bit(interrupts.if, 3)
          /\ serial.sb = \hFF
          /\ serial.sc = \h01

\* The frame-buffer cells the model keeps
TrackedCells == {y * SCREEN_WIDTH + x : y \in 0..SCREEN_HEIGHT - 1, x \in 0..FbCols - 1}

\* C4: with LCDC = 0x91, BGP = 0xE4, tile 0 all 0xFF and the 0x9800 tile map
\* all 0 during a whole run_frame, after that frame every frame-buffer byte
\* (of the columns kept) equals 3 (Black): all 144 rows have been rendered.
C4_AllBlack ==
    (last_op.kind = "return" /\ hist.setup) =>
        \A i \in TrackedCells : Get(video.framebuffer, i, 0) = 3

\* C5: when LCDC bit 7 is clear, Video::step forces mode = HBlank and LY = 0,
\* returns no interrupts and leaves the accumulated mode cycles unchanged, and
\* the frame buffer is as it was before the step.
C5_DisplayOff ==
    (last_op.kind = "step" /\ ~panicked /\ ~display_enabled(video)) =>
        /\ video.mode = "HBlank"
        /\ video.ly = 0
        /\ hist.video_interrupts = <<>>
        /\ video.mode_cycles = hist.video.mode_cycles
        /\ video.framebuffer = hist.video.framebuffer

\* C5 happens: a step turned the display off while the PPU was past line 0, in
\* another mode than HBlank, with pixels drawn
C5_Witness ==
    /\ last_op.kind = "step"
    /\ ~panicked
    /\ ~display_enabled(video)
    /\ display_enabled(hist.video)
    /\ hist.video.ly > 0
    /\ hist.video.mode # "HBlank"
    /\ hist.video.mode_cycles > 0
    /\ hist.video.framebuffer # Empty

-----------------------------------------------------------------------------
(* The bus-level claims, under SpecBus *)

\* Whether a read of `address` finds nothing mapped, is gated by the PPU mode,
\* or meets cartridge RAM that is absent or disabled
reads_nothing(address) ==
    \/ address >= \hFEA0 /\ address <= \hFEFF
    \/ address = \hFF03
    \/ address >= \h8000 /\ address <= \h9FFF /\ video.mode = "VRAMRead"
    \/ address >= \hFE00 /\ address <= \hFE9F /\ video.mode \in {"OAMRead", "VRAMRead"}
    \/ /\ address >= \hA000 /\ address <= \hBFFF
       /\ cartridge.kind = "ROMOnly" \/ cartridge.ram_len = 0 \/ ~cartridge.ram_enabled

\* C6: every bus read, with either mapper, in any PPU mode and any cartridge-RAM
\* enable state, returns a defined byte (0xFF where nothing is mapped, where the
\* PPU mode gates the access, or where cartridge RAM is absent or disabled) and
\* never raises an error.
C6_ReadsDefined ==
    last_op.kind = "read" =>
        /\ ~panicked
        /\ last_op.result \in Byte
        /\ reads_nothing(last_op.address) => last_op.result = \hFF

\* C7: a write of v to 0xFF46 leaves, within that bus write, OAM byte i equal to
\* the byte the bus read at (v << 8) + i, for every i in 0..159, in whatever
\* mode the PPU is.
C7_DmaCopies ==
    (last_op.kind = "write" /\ last_op.address = \hFF46 /\ ~panicked) =>
        \A i \in 0..159 : Get(video.oam, i, 0) = hist.source[i]

\* Pixel (row, x) of tile t as the two VRAM bytes of the row encode it
decode_pixel(vram, t, row, x) ==
    (IF get_bit(Get(vram, 16 * t + 2 * row, 0), 7 - x) THEN 1 ELSE 0)
    + (IF get_bit(Get(vram, 16 * t + 2 * row + 1, 0), 7 - x) THEN 2 ELSE 0)

\* Sprite s as the four OAM bytes of the entry encode it
decode_sprite(oam, s) ==
    [y |-> Get(oam, 4 * s, 0), x |-> Get(oam, 4 * s + 1, 0), tile |-> Get(oam, 4 * s + 2, 0),
     priority |-> IF get_bit(Get(oam, 4 * s + 3, 0), 7) THEN "Behind" ELSE "Above",
     y_flip |-> get_bit(Get(oam, 4 * s + 3, 0), 6),
     x_flip |-> get_bit(Get(oam, 4 * s + 3, 0), 5),
     palette |-> IF get_bit(Get(oam, 4 * s + 3, 0), 4) THEN 1 ELSE 0]

\* The tiles with a pixel in the cache or a byte in VRAM that is not 0; every
\* other tile is all 0 in both
TilesInUse ==
    {k[1] : k \in DOMAIN video.tiles} \cup {i \div 16 : i \in {j \in DOMAIN video.vram : j < \h1800}}

\* The sprites with an entry in the cache or a byte in OAM that is not the initial one
SpritesInUse == (DOMAIN video.sprites) \cup {i \div 4 : i \in DOMAIN video.oam}

EchoedCells == {i \in (DOMAIN wram) \cup {0, \h1DFF} : i <= \h1DFF}

\* C13: for a WRAM address a in 0xC000..0xDFFF and a byte b, write(a, b) followed
\* by read(a) returns b; for a in 0xC000..0xDDFF read(a) = read(a + 0x2000) in
\* every reachable state, and a write through the echo address a + 0x2000 is
\* read back at a.
C13_WramEcho ==
    /\ \A i \in EchoedCells :
          bus_read_byte(Bus, \hC000 + i) = bus_read_byte(Bus, \hE000 + i)
    /\ (last_op.kind = "write" /\ last_op.address >= \hC000 /\ last_op.address <= \hDFFF) =>
          /\ ~panicked
          /\ bus_read_byte(Bus, last_op.address) = last_op.value
    /\ (last_op.kind = "write" /\ last_op.address >= \hE000 /\ last_op.address <= \hFDFF) =>
          /\ ~panicked
          /\ bus_read_byte(Bus, last_op.address - \h2000) = last_op.value
    /\ (last_op.kind = "read" /\ last_op.address >= \hE000 /\ last_op.address <= \hFDFF) =>
          last_op.result = bus_read_byte(Bus, last_op.address - \h2000)

\* C13 happens: a byte written through the echo and a byte written to WRAM are
\* both held, and the echo of the latter was read
C13_Witness ==
    /\ ~panicked
    /\ last_op.kind = "read"
    /\ last_op.address = \hE000
    /\ last_op.result = \h11
    /\ Get(wram, \h1DFF, 0) = \h22

-----------------------------------------------------------------------------
(* The CPU over the first iterations of run_frame, for a family of programs *)

MaxSteps == 8

\* The low and the high byte of a word, as an instruction's operand
operand(nn) == <<nn % 256, nn \div 256>>

\* Where the programs put the stack: WRAM, HRAM (where CPU::new puts it), ROM,
\* and 0x0001, from where a PUSH wraps around to 0xFFFF
StackPointers == {\hD000, \hFFFE, \h4000, \h0001}

\* The words the programs load into BC
Words == {\h12FF, \hA55A}

\* An instruction on A and the flags: ADD A,0x0F; ADC A,0xFF; SUB 0x01; SBC A,0xB0;
\* AND 0xF0; XOR 0x01; OR 0x00; CP 0x01; INC A; DEC A; DAA; CPL; SCF; CCF
FlagInstructions ==
    {<<\hC6, \h0F>>, <<\hCE, \hFF>>, <<\hD6, \h01>>, <<\hDE, \hB0>>, <<\hE6, \hF0>>,
     <<\hEE, \h01>>, <<\hF6, \h00>>, <<\hFE, \h01>>, <<\h3C>>, <<\h3D>>, <<\h27>>,
     <<\h2F>>, <<\h37>>, <<\h3F>>}

\* LD SP,nn; LD BC,nn; an instruction on the flags; PUSH BC or PUSH AF; POP HL
\* or POP AF; loop
CpuPrograms ==
    {then_loop(<<\h31>> \o operand(sp) \o <<\h01>> \o operand(w) \o i \o <<pu, po>>) :
        sp \in StackPointers, w \in Words, i \in FlagInstructions,
        pu \in {\hC5, \hF5}, po \in {\hE1, \hF1}}

\* The offset bytes of the jumps: 0, +5, +127, -128, -2 (to the jump itself), -1
Offsets == {\h00, \h05, \h7F, \h80, \hFE, \hFF}

\* NOP (Z and C set, as CPU::new leaves them) or OR 0x01 (Z and C clear), then
\* JR e8 or JR cc,e8; the ROM around the program is NOPs
JrPrograms ==
    {p \o <<j, e>> : p \in {<<\h00>>, <<\hF6, \h01>>},
                      j \in {\h18} \cup JrCcOpcodes, e \in Offsets}

\* The values the programs load into the register: with the low nibble, the
\* high nibble or both at their least and their greatest
Values == {\h00, \h01, \h0F, \h10, \h7F, \h80, \hF0, \hFF}

\* SCF or CCF; LD r,n; INC r or DEC r; loop
IncDecPrograms ==
    {then_loop(<<c, i + 2, v, i + d>>) :
        c \in {\h37, \h3F}, i \in IncOpcodes, v \in Values, d \in {0, 1}}

\* gb_load_rom with the ROM of one of the CPU programs
InsertCpuProgram ==
    \E program \in CpuPrograms \cup JrPrograms \cup IncDecPrograms :
        InsertRom(make_rom(program, 0, 0, Empty))

\* One of the first MaxSteps iterations of the loop of run_frame
CpuStep == ops < MaxSteps /\ FrameStep

NextCpu == InsertCpuProgram \/ RunFrameEnter \/ CpuStep

SpecCpu == Init /\ [][NextCpu]_vars

\* The last operation was a CPU step that executed one of `opcodes`
executed(opcodes) == last_op.kind = "step" /\ last_op.value \in opcodes /\ ~panicked

\* The words written to AF
AfWords == {\h0000, \h000F, \h00F0, \h12FF, \hA55A, \hFFFF}

\* C8: after any sequence of CPU instructions, POP AF of an arbitrary stack word
\* included, bits 3..0 of F are zero; writing any v to AF and reading AF back
\* yields v & 0xFFF0.
C8_FlagsLowNibble ==
    /\ cpu.f % 16 = 0
    /\ \A v \in AfWords : get_af(set_af(cpu, v)) = bit_and(v, \hFFF0)
    /\ executed({\hF1}) => get_af(cpu) = bit_and(bus_read_word(Bus, last_op.sp), \hFFF0)

\* C8 happens: POP AF took a stack word whose low four bits are not all zero
C8_Witness ==
    /\ executed({\hF1})
    /\ bus_read_word(Bus, last_op.sp) # Panic
    /\ bus_read_word(Bus, last_op.sp) % 16 # 0

\* What a POP into the pair of `opcode` makes of a word
popped_as(opcode, word) == IF opcode = \hF1 THEN bit_and(word, \hFFF0) ELSE word

\* What PUSH and POP do, each by itself: PUSH predecrements SP by 2 and the word
\* is read back little-endian at SP; POP takes the word that is little-endian at
\* SP and postincrements SP by 2
push_pop_steps ==
    /\ executed(PushOpcodes) =>
          /\ cpu.sp = wrapping_sub16(last_op.sp, 2)
          /\ bus_read_byte(Bus, cpu.sp) = hist.pushed.value % 256
          /\ bus_read_byte(Bus, wrapping_add16(cpu.sp, 1)) = hist.pushed.value \div 256
    /\ executed(PopOpcodes) =>
          /\ cpu.sp = wrapping_add16(last_op.sp, 2)
          /\ get_pair(cpu, pair_of(last_op.value))
                = popped_as(last_op.value, bus_read_word(Bus, last_op.sp))

\* A POP was executed right after a PUSH
pop_after_push == last_op.kind = "step" /\ last_op.value \in PopOpcodes
                  /\ hist.prev_opcode \in PushOpcodes

\* The POP returned what the PUSH pushed and SP is what it was before the PUSH
round_trip ==
    /\ ~panicked
    /\ get_pair(cpu, pair_of(last_op.value)) = popped_as(last_op.value, hist.pushed.value)
    /\ cpu.sp = hist.pushed.sp

\* C9: PUSH of any register pair followed by POP into any register pair returns
\* the pushed value (masked to 0xFFF0 when popped into AF) and restores SP;
\* PUSH predecrements SP by 2 and stores the word little-endian at SP, POP reads
\* little-endian at SP and postincrements SP by 2.
C9_PushPop ==
    /\ push_pop_steps
    /\ pop_after_push => round_trip

\* Work RAM, its echo, or high RAM
in_ram(address) ==
    \/ address >= \hC000 /\ address <= \hFDFF
    \/ address >= \hFF80 /\ address <= \hFFFE

\* The two bytes below `sp` lie in RAM
stack_in_ram(sp) == in_ram(wrapping_sub16(sp, 1)) /\ in_ram(wrapping_sub16(sp, 2))

\* The last operation was a CPU step that fetched one of `opcodes`
stepped(opcodes) == last_op.kind = "step" /\ last_op.value \in opcodes

\* C9, amended: when the two bytes below SP are work RAM, its echo or high RAM,
\* PUSH predecrements SP by 2 and stores the word little-endian at SP; when the
\* two bytes at SP are such RAM, POP reads little-endian at SP and postincrements
\* SP by 2; and a PUSH to such RAM followed by POP returns the pushed value
\* (masked to 0xFFF0 when popped into AF) and restores SP.
C9_PushPopInRam ==
    /\ (stepped(PushOpcodes) /\ stack_in_ram(last_op.sp)) =>
          /\ ~panicked
          /\ cpu.sp = wrapping_sub16(last_op.sp, 2)
          /\ bus_read_byte(Bus, cpu.sp) = hist.pushed.value % 256
          /\ bus_read_byte(Bus, wrapping_add16(cpu.sp, 1)) = hist.pushed.value \div 256
    /\ (stepped(PopOpcodes) /\ stack_in_ram(wrapping_add16(last_op.sp, 2))) =>
          /\ ~panicked
          /\ cpu.sp = wrapping_add16(last_op.sp, 2)
          /\ get_pair(cpu, pair_of(last_op.value))
                = popped_as(last_op.value, bus_read_word(Bus, last_op.sp))
    /\ (pop_after_push /\ stack_in_ram(hist.pushed.sp)) => round_trip

\* C9 happens: a word with different bytes was pushed to a stack in RAM and
\* popped into another pair
C9_Witness ==
    /\ pop_after_push
    /\ ~panicked
    /\ stack_in_ram(hist.pushed.sp)
    /\ hist.prev_opcode = \hC5
    /\ last_op.value = \hE1
    /\ hist.pushed.value \div 256 # hist.pushed.value % 256

-----------------------------------------------------------------------------
(* The timer and the interrupt check over the first iterations of run_frame, *)
(* for a family of programs                                                  *)

MaxInterruptSteps == 80

\* LD A,value; LDH (0xFF00 + n),A
store(n, value) == <<\h3E, value, \hE0, n>>

\* IE and IF as the programs write them: nothing pending; each of the five
\* interrupts pending, with lower bits of IF not enabled or with bits 5-7 set
\* besides; only bits 5-7 pending
InterruptRegisters ==
    {<<\h00, \h00>>, <<\h01, \h01>>, <<\h03, \h02>>, <<\h04, \h05>>, <<\hFF, \hE8>>,
     <<\h1F, \h10>>, <<\h20, \h20>>, <<\hE0, \hFF>>}

\* DI or NOP; IE and IF written; NOP or HALT; NOP; EI or NOP; NOP; loop
InterruptPrograms ==
    {then_loop(<<p>> \o store(\hFF, r[1]) \o store(\h0F, r[2]) \o <<y, \h00, q, \h00>>) :
        p \in {\hF3, \h00}, r \in InterruptRegisters, y \in {\h00, \h76}, q \in {\hFB, \h00}}

\* TMA and TIMA as the programs write them
TimerRegisters == {<<\h00, \h00>>, <<\hFE, \hFE>>, <<\hFF, \hFF>>}

\* TAC as the programs write it: the timer enabled with each of the four clock
\* selects, and disabled
TimerControls == {\h04, \h05, \h06, \h07, \h00, \h01}

\* DI or NOP; IE, TMA, TIMA and TAC written; NOP or HALT; NOP; loop
TimerPrograms ==
    {then_loop(<<p>> \o store(\hFF, ie) \o store(\h06, r[1]) \o store(\h05, r[2])
               \o store(\h07, tac) \o <<y, \h00>>) :
        p \in {\hF3, \h00}, ie \in {\h00, \h04}, r \in TimerRegisters, tac \in TimerControls,
        y \in {\h00, \h76}}

\* TMA and TIMA = 0xFF written, the timer started with a period of 1024 cycles
\* (TAC = 0x04), eight NOPs, the period switched to 16 cycles (TAC = 0x05), loop
SwitchPrograms ==
    {then_loop(store(\h06, tma) \o store(\h05, \hFF) \o store(\h07, \h04) \o nops(8)
               \o store(\h07, \h05) \o <<\h00>>) : tma \in {\hFF, \hFE}}

\* DIV and TAC written, loop
DivPrograms ==
    {then_loop(store(\h04, div) \o store(\h07, tac) \o <<\h00>>) :
        div \in {\hFF, \h7F}, tac \in {\h00, \h05, \h07}}

\* DI or NOP; IE written; the timer started so that TIMA overflows every 16
\* cycles (TMA = TIMA = 0xFF, TAC = 0x05); IF written four times, as 0x00 and
\* as 0x01; loop
PostPrograms ==
    {then_loop(<<p>> \o store(\hFF, ie) \o store(\h06, \hFF) \o store(\h05, \hFF)
               \o store(\h07, \h05) \o store(\h0F, \h00) \o store(\h0F, \h01)
               \o store(\h0F, \h00) \o store(\h0F, \h01) \o <<\h00>>) :
        p \in {\hF3, \h00}, ie \in {\h00, \h04}}

\* gb_load_rom with the ROM of one of the interrupt or timer programs
InsertInterruptProgram ==
    \E program \in InterruptPrograms \cup TimerPrograms \cup SwitchPrograms \cup DivPrograms
                     \cup PostPrograms :
        InsertRom(make_rom(program, 0, 0, Empty))

\* One of the first MaxInterruptSteps iterations of the loop of run_frame
InterruptStep == ops < MaxInterruptSteps /\ FrameStep

NextInterrupts == InsertInterruptProgram \/ RunFrameEnter \/ InterruptStep

SpecInterrupts == Init /\ [][NextInterrupts]_vars

\* The last operation was an iteration of run_frame
iterated == last_op.kind = "step"

\* The period of TIMA in cycles, by bits 1-0 of TAC
period(tac) ==
    IF tac % 4 = 0 THEN 1024 ELSE IF tac % 4 = 1 THEN 16 ELSE IF tac % 4 = 2 THEN 64 ELSE 256

\* TIMA after n increments, each one that passes 0xFF reloading it with TMA
RECURSIVE tima_after(_, _, _)
tima_after(tima, tma, n) ==
    IF n = 0 THEN tima
    ELSE tima_after(IF tima = \hFF THEN tma ELSE tima + 1, tma, n - 1)

\* Whether one of n increments of TIMA passes 0xFF
RECURSIVE overflows(_, _, _)
overflows(tima, tma, n) ==
    /\ n > 0
    /\ tima = \hFF \/ overflows(tima + 1, tma, n - 1)

\* The periods completed by the cycles fed to the enabled timer in the last
\* step, the period being p
completed(p) == hist.timer_fed \div p - (hist.timer_fed - last_op.result) \div p

\* C11: while TAC bit 2 is set, TIMA is incremented once per period of the
\* cycles accumulated, the period being 1024, 16, 64 or 256 cycles for TAC bits
\* 1-0 = 00, 01, 10, 11; while TAC bit 2 is clear Timer::step leaves TIMA
\* unchanged.
C11_TimerPeriod ==
    (iterated /\ ~panicked) =>
        IF timer_enabled(hist.timer)
        THEN timer.tima = tima_after(hist.timer.tima, hist.timer.tma,
                                     completed(period(hist.timer.tac)))
        ELSE timer.tima = hist.timer.tima

\* The increments of TIMA Timer::step made in the last step
increments == (hist.timer.timer_cycles + last_op.result) \div get_freq(hist.timer)

\* C12: whenever an increment of TIMA passes 0xFF, TIMA is reloaded with TMA
\* (it is never left at 0x00 unless TMA is 0x00) and the Timer interrupt (IF bit
\* 2) is requested in that step, and in no other; with TMA = 0xFE, TIMA = 0xFE
\* and TAC = 0x05 that is once 32 cycles have been fed, and TIMA is TMA after a
\* step whose last increment overflowed.
C12_TimerOverflow ==
    (iterated /\ ~panicked /\ timer_enabled(hist.timer)) =>
        /\ timer.tima = tima_after(hist.timer.tima, hist.timer.tma, increments)
        /\ overflows(hist.timer.tima, hist.timer.tma, increments)
              <=> \E i \in DOMAIN hist.requested : hist.requested[i] = "Timer"
        /\ overflows(hist.timer.tima, hist.timer.tma, increments)
              => get_bit(interrupts.if, 2)
        /\ (hist.timer.tma = \hFE /\ hist.timer.tac = \h05 /\ get_bit(interrupts.if, 2))
              => hist.timer_fed >= 32
        /\ (increments > 0
            /\ tima_after(hist.timer.tima, hist.timer.tma, increments - 1) = \hFF)
              => timer.tima = timer.tma

\* C12 happens: with TMA = 0xFE and TAC = 0x05, TIMA passed 0xFF in the last step
C12_Witness ==
    /\ iterated
    /\ ~panicked
    /\ hist.timer.tma = \hFE
    /\ hist.timer.tac = \h05
    /\ hist.timer.tima = \hFF
    /\ timer.tima = \hFE
    /\ \E i \in DOMAIN hist.requested : hist.requested[i] = "Timer"

\* IE & IF at the top of the last step
pending == bit_and(hist.interrupts.ie, hist.interrupts.if)

\* The lowest bit of x that is set, x not being 0
lowest_set_bit(x) == CHOOSE n \in 0..7 : get_bit(x, n) /\ \A k \in 0..n - 1 : ~get_bit(x, k)

\* The vector of interrupt bit n: 0x40, 0x48, 0x50, 0x58, 0x60 for bits 0..4
vector(n) == \h40 + 8 * n

\* The last step fetched no instruction and dispatched interrupt bit n instead:
\* it cleared IME and bit n of IF, pushed PC, set PC to the vector of bit n and
\* cost 16 cycles
dispatched(n) ==
    /\ ~panicked
    /\ last_op.value = Panic
    /\ hist.checked.handled
    /\ ~cpu.ime
    /\ hist.checked.if = set_bit(hist.interrupts.if, n, FALSE)
    /\ cpu.sp = wrapping_sub16(hist.cpu.sp, 2)
    /\ stack_in_ram(hist.cpu.sp) => bus_read_word(Bus, cpu.sp) = hist.cpu.pc
    /\ cpu.pc = vector(n)
    /\ last_op.result = 16

\* C14: when IME is true and IE & IF is nonzero at the top of a CPU step, the
\* step fetches no instruction and instead clears IME, clears the lowest set bit
\* of IF, pushes PC, sets PC to the vector of that bit and costs 16 cycles.
C14_Dispatch ==
    (iterated /\ hist.cpu.ime /\ pending # 0) =>
        dispatched(lowest_set_bit(hist.interrupts.if))

\* C14, amended: when IME is true and IE & IF has one of bits 0..4 set at the top
\* of a CPU step, the step fetches no instruction and instead clears IME, clears
\* in IF the lowest set bit of IE & IF, pushes PC, sets PC to the vector of that
\* bit and costs 16 cycles.
C14_DispatchPending ==
    (iterated /\ hist.cpu.ime /\ bit_and(pending, \h1F) # 0) =>
        dispatched(lowest_set_bit(pending))

\* C14 happens: with IE = 0x04 and IF = 0x05 the Timer interrupt was dispatched
\* and the VBlank request, which is not enabled, was left in IF
C14_Witness ==
    /\ iterated
    /\ hist.cpu.ime
    /\ hist.interrupts.ie = \h04
    /\ hist.interrupts.if = \h05
    /\ hist.checked.if = \h01
    /\ cpu.pc = \h50

\* The last step was LDH (0xFF00 + n),A
stored_at(n) ==
    /\ iterated
    /\ ~panicked
    /\ last_op.value = \hE0
    /\ bus_read_byte(Bus, wrapping_add16(last_op.address, 1)) = n

\* C15: bits 5-7 of IE and IF are stored and read back as written but ignored
\* during dispatch: a CPU step in which IE & IF & 0x1F = 0 dispatches no
\* interrupt, changes neither IF, IME, SP nor PC through the interrupt path and
\* raises no error, whatever bits 5-7 of IE and IF are.
C15_UpperBitsIgnored ==
    /\ stored_at(\hFF) => bus_read_byte(Bus, \hFFFF) = cpu.a
    /\ stored_at(\h0F) =>
          bit_and(bus_read_byte(Bus, \hFF0F), \hE0) = bit_and(cpu.a, \hE0)
    /\ (iterated /\ bit_and(pending, \h1F) = 0) =>
          /\ ~panicked
          /\ ~hist.checked.handled
          /\ hist.checked.if = hist.interrupts.if
          /\ hist.checked.ime = hist.cpu.ime
          /\ hist.checked.sp = hist.cpu.sp
          /\ hist.checked.pc = hist.cpu.pc

\* C16: after HALT, every CPU step taken while IE & IF = 0 costs 4 cycles and
\* changes no register, PC, SP or memory; the CPU leaves the halted state in the
\* first step at whose top IE & IF is nonzero, and if IME is false then it
\* un-halts without dispatching: IF and SP unchanged, no jump to a vector.
C16_Halt ==
    /\ (iterated /\ hist.cpu.halt /\ pending = 0) =>
          /\ ~panicked
          /\ last_op.result = 4
          /\ cpu = hist.cpu
          /\ hist.memory_kept
    /\ (iterated /\ hist.cpu.halt /\ pending # 0) =>
          /\ ~hist.checked.panic
          /\ ~hist.checked.halt
    /\ (iterated /\ hist.cpu.halt /\ pending # 0 /\ ~hist.cpu.ime) =>
          /\ ~hist.checked.handled
          /\ hist.checked.if = hist.interrupts.if
          /\ hist.checked.sp = hist.cpu.sp
          /\ hist.checked.pc = hist.cpu.pc

\* C16 happens: the CPU halted with IME false, stayed halted while nothing was
\* pending, and left the halted state once the timer had requested its
\* interrupt
C16_Witness ==
    /\ iterated
    /\ ~panicked
    /\ hist.cpu.halt
    /\ ~hist.cpu.ime
    /\ hist.interrupts.ie = \h04
    /\ hist.interrupts.if = \h04
    /\ ~cpu.halt
    /\ hist.cpu.cycles + 8 < elapsed_cycles

\* C17: when IME is false and the CPU is not halted, a CPU step dispatches no
\* interrupt whatever IE and IF hold: the interrupt check leaves IF and IME
\* unchanged and the step executes the instruction at PC.
C17_Masked ==
    (iterated /\ ~hist.cpu.ime /\ ~hist.cpu.halt) =>
        /\ ~hist.checked.handled
        /\ hist.checked.if = hist.interrupts.if
        /\ ~hist.checked.ime
        /\ last_op.address = hist.cpu.pc
        /\ last_op.value # Panic
        /\ last_op.value = bus_read_byte(Bus, hist.cpu.pc)

\* C17 happens: with IME false, an enabled interrupt was requested and the step
\* executed the NOP at PC
C17_Witness ==
    /\ iterated
    /\ ~panicked
    /\ ~hist.cpu.ime
    /\ ~hist.cpu.halt
    /\ pending # 0
    /\ last_op.value = \h00
    /\ cpu.pc = wrapping_add16(hist.cpu.pc, 1)

-----------------------------------------------------------------------------
(* The claims about the PPU's timing and its interrupts, under SpecFrame *)

\* The cycles of one pass of LY through 0..153
pass_cycles == (LAST_LINE + 1) * VBLANK_LINE_CYCLES

\* The cycles a mode lasts (VBlank: each of its lines)
duration(mode) ==
    IF mode = "OAMRead" THEN OAM_READ_CYCLES
    ELSE IF mode = "VRAMRead" THEN VRAM_READ_CYCLES
    ELSE IF mode = "HBlank" THEN HBLANK_CYCLES
    ELSE VBLANK_LINE_CYCLES

\* The cycles into its line at which a mode begins
line_start(mode) ==
    IF mode = "VRAMRead" THEN OAM_READ_CYCLES
    ELSE IF mode = "HBlank" THEN OAM_READ_CYCLES + VRAM_READ_CYCLES
    ELSE 0

\* The PPU went from old to new by staying in its mode or by one step of the
\* order of the modes
succession(old, new) ==
    \/ new.mode = old.mode /\ new.ly = old.ly
    \/ old.mode = "OAMRead" /\ new.mode = "VRAMRead" /\ new.ly = old.ly
    \/ old.mode = "VRAMRead" /\ new.mode = "HBlank" /\ new.ly = old.ly
    \/ /\ old.mode = "HBlank"
       /\ new.ly = old.ly + 1
       /\ new.mode = IF new.ly = VBLANK_START_LINE THEN "VBlank" ELSE "OAMRead"
    \/ old.mode = "VBlank" /\ new.mode = "VBlank" /\ new.ly = old.ly + 1
    \/ old.mode = "VBlank" /\ old.ly = LAST_LINE /\ new.mode = "OAMRead" /\ new.ly = 0

\* C18: with the display enabled (at every iteration so far) the PPU goes
\* OAMRead -> VRAMRead -> HBlank -> OAMRead of the next line or VBlank, and
\* VBlank -> OAMRead with LY = 0 after line 153; in cycles fed to Video::step
\* OAMRead lasts 80, VRAMRead 172, HBlank 204 and a VBlank line 456, so the
\* cycles fed so far, modulo 154 x 456 = 70,224, are 456 for each line passed
\* plus the cycles of the modes passed in the current line plus those
\* accumulated in the current mode.
C18_ModeTiming ==
    (iterated /\ ~panicked /\ hist.always_on) =>
        /\ succession(hist.video, video)
        /\ video.ly <= LAST_LINE
        /\ (video.mode = "VBlank") = (video.ly >= VBLANK_START_LINE)
        /\ video.mode_cycles < duration(video.mode)
        /\ hist.video_fed % pass_cycles =
              video.ly * VBLANK_LINE_CYCLES + line_start(video.mode) + video.mode_cycles
        /\ pass_cycles = 70224

\* C18 happens: with the display on throughout, a whole pass was made and LY
\* has just wrapped from 153 to 0
C18_Witness ==
    /\ iterated
    /\ ~panicked
    /\ hist.always_on
    /\ hist.video.mode = "VBlank"
    /\ hist.video.ly = LAST_LINE
    /\ video.mode = "OAMRead"
    /\ video.ly = 0
    /\ hist.video_fed >= pass_cycles

\* Video::step of the last iteration returned interrupt i
returned(i) == \E k \in 1..Len(hist.video_interrupts) : hist.video_interrupts[k] = i

\* C19: with the display enabled, Video::step requests the VBlank interrupt
\* (once) exactly in the step where HBlank exits and LY becomes 143, whatever
\* STAT holds; with the display enabled at every iteration so far, the
\* requests so far number the passes of LY that have reached line 143.
C19_VBlankRequest ==
    (iterated /\ ~panicked /\ display_enabled(video)) =>
        /\ returned("VBlank") =
              /\ hist.video.mode = "HBlank"
              /\ video.mode = "VBlank"
              /\ hist.video.ly = VBLANK_START_LINE - 1
              /\ video.ly = VBLANK_START_LINE
        /\ Len(SelectSeq(hist.video_interrupts, LAMBDA i : i = "VBlank")) <= 1
        /\ hist.always_on =>
              hist.vblank_requests =
                 (hist.video_fed + pass_cycles - VBLANK_START_LINE * VBLANK_LINE_CYCLES)
                    \div pass_cycles

\* C19 happens: the second pass reaches line 143 with every STAT interrupt
\* disabled, and VBlank is requested
C19_Witness ==
    /\ iterated
    /\ ~panicked
    /\ hist.always_on
    /\ returned("VBlank")
    /\ bit_and(video.stat, \h78) = 0
    /\ hist.vblank_requests = 2

\* C20: in every step that changes LY with the display enabled, if the new LY
\* equals LYC and STAT bit 6 is set, Video::step requests LCDStat; also at the
\* wrap from 153 to 0 with LYC = 0.
C20_Coincidence ==
    (/\ iterated
     /\ ~panicked
     /\ display_enabled(video)
     /\ video.ly # hist.video.ly
     /\ coincidence_flag(video)
     /\ coincidence_interrupt_enabled(video)) => returned("LCDStat")

\* The LCDStat requests Video::step of the last iteration returned
lcdstat_requests == Len(SelectSeq(hist.video_interrupts, LAMBDA i : i = "LCDStat"))

\* The last Video::step took the PPU from mode `from` to mode `to`
transition(from, to) == hist.video.mode = from /\ video.mode = to

\* 1 if the last Video::step made a mode transition whose STAT enable bit is
\* set (bit 3 into HBlank, bit 4 into VBlank, bit 5 into OAMRead), else 0
enabled_transition ==
    IF \/ transition("VRAMRead", "HBlank") /\ get_bit(video.stat, 3)
       \/ transition("HBlank", "VBlank") /\ get_bit(video.stat, 4)
       \/ transition("HBlank", "OAMRead") /\ get_bit(video.stat, 5)
       \/ transition("VBlank", "OAMRead") /\ get_bit(video.stat, 5)
    THEN 1 ELSE 0

\* C21: in a step with the display enabled, the mode transition requests
\* LCDStat if and only if its STAT enable bit is set (bit 3 on VRAMRead ->
\* HBlank, bit 4 on HBlank -> VBlank, bit 5 on HBlank -> OAMRead): Video::step
\* returns one LCDStat for an enabled transition and none otherwise, beside at
\* most one more for LY = LYC when LY changed and bit 6 is set; with bits 3-6
\* all clear it returns none.
C21_StatInterrupts ==
    (iterated /\ ~panicked /\ display_enabled(video)) =>
        /\ lcdstat_requests >= enabled_transition
        /\ lcdstat_requests <= enabled_transition +
              (IF get_bit(video.stat, 6) /\ video.ly # hist.video.ly THEN 1 ELSE 0)
        /\ bit_and(video.stat, \h78) = 0 => ~returned("LCDStat")

\* C21 happens: HBlank exits to OAMRead with bit 5 set and bit 6 clear, and
\* LCDStat is requested
C21_Witness ==
    /\ iterated
    /\ ~panicked
    /\ display_enabled(video)
    /\ transition("HBlank", "OAMRead")
    /\ video.stat = \h28
    /\ lcdstat_requests = 1

\* The address nn of the LD (nn),A or LD A,(nn) the last step executed
target ==
    bus_read_byte(Bus, last_op.address + 1) + 256 * bus_read_byte(Bus, last_op.address + 2)

\* The PPU mode keeps the CPU of the last step from the memory at address
gated(address) ==
    IF address < \hFE00 THEN hist.video.mode = "VRAMRead"
    ELSE hist.video.mode \in {"OAMRead", "VRAMRead"}

\* The byte stored at a VRAM or OAM address before the last step
stored(address) ==
    IF address < \hFE00 THEN Get(hist.video.vram, address - \h8000, 0)
    ELSE Get(hist.video.oam, address - \hFE00, 0)

\* VRAM or OAM address
in_video(address) ==
    \/ address >= \h8000 /\ address <= \h9FFF
    \/ address >= \hFE00 /\ address <= \hFE9F

\* C22: a CPU read of VRAM returns 0xFF exactly while the mode is VRAMRead and
\* a read of OAM exactly while it is OAMRead or VRAMRead, and the stored byte
\* in every other mode; a CPU write in the gated modes leaves VRAM and the tile
\* cache (OAM and the sprite table) as they were, and in every other mode the
\* byte is stored and read back.
C22_ModeGating ==
    /\ (executed({\hFA}) /\ in_video(target)) =>
          cpu.a = IF gated(target) THEN \hFF ELSE stored(target)
    /\ (executed({\hEA}) /\ in_video(target)) =>
          IF gated(target)
          THEN /\ hist.cpu_video.vram = hist.video.vram
               /\ hist.cpu_video.tiles = hist.video.tiles
               /\ hist.cpu_video.oam = hist.video.oam
               /\ hist.cpu_video.sprites = hist.video.sprites
          ELSE /\ video_read_byte(hist.cpu_video, target) = hist.cpu.a
               /\ target < \hFE00 =>
                     /\ Get(hist.cpu_video.vram, target - \h8000, 0) = hist.cpu.a
                     /\ hist.cpu_video.oam = hist.video.oam
               /\ target >= \hFE00 =>
                     /\ Get(hist.cpu_video.oam, target - \hFE00, 0) = hist.cpu.a
                     /\ hist.cpu_video.vram = hist.video.vram

\* C22 happens: a store to VRAM in VRAMRead of a byte other than the one an
\* earlier store left there
C22_Witness ==
    /\ executed({\hEA})
    /\ target = \h8000
    /\ hist.video.mode = "VRAMRead"
    /\ stored(target) # 0
    /\ stored(target) # hist.cpu.a

\* The last step executed LDH (n),A or LDH A,(n) (opcode) on STAT, n = 0x41
on_stat(opcode) == executed({opcode}) /\ bus_read_byte(Bus, last_op.address + 1) = \h41

\* C23: a read of STAT returns the stored bits 3-7, in bits 0-1 the number of
\* the current mode (HBlank 0, VBlank 1, OAMRead 2, VRAMRead 3) and in bit 2
\* whether LYC = LY at the read; a write to STAT changes bits 2-7 of the stored
\* value to those written and nothing else of the PPU, its mode included.
C23_Stat ==
    /\ on_stat(\hF0) =>
          /\ cpu.a \div 8 = hist.video.stat \div 8
          /\ cpu.a % 4 = (CASE hist.video.mode = "HBlank" -> 0
                            [] hist.video.mode = "VBlank" -> 1
                            [] hist.video.mode = "OAMRead" -> 2
                            [] hist.video.mode = "VRAMRead" -> 3)
          /\ get_bit(cpu.a, 2) = (hist.video.lyc = hist.video.ly)
    /\ on_stat(\hE0) =>
          /\ hist.cpu_video.stat \div 4 = hist.cpu.a \div 4
          /\ hist.cpu_video.stat % 4 = hist.video.stat % 4
          /\ hist.cpu_video.mode = hist.video.mode
          /\ [hist.cpu_video EXCEPT !.stat = hist.video.stat] = hist.video

\* C23 happens: STAT is read on the line LYC names, with stored bits among
\* 3-7 set and the stored bit 2 clear, and the byte read has bit 2 set
C23_Witness ==
    /\ on_stat(\hF0)
    /\ hist.video.lyc = hist.video.ly
    /\ ~get_bit(hist.video.stat, 2)
    /\ hist.video.stat >= 8
    /\ get_bit(cpu.a, 2)
    /\ cpu.a % 4 # hist.video.stat % 4

\* C23 happens for a write: the byte stored to STAT differs from the stored
\* value in bits 0-1 and in bits 2-7
C23_WriteWitness ==
    /\ on_stat(\hE0)
    /\ hist.cpu.a % 4 # hist.video.stat % 4
    /\ hist.cpu.a \div 4 # hist.video.stat \div 4

-----------------------------------------------------------------------------
(* The MBC1 cartridge driven through the bus *)

MaxMbcOps == 5

\* An MBC1 cartridge with 32 KiB of RAM
MbcROM == make_rom(<<>>, 1, 3, BusData)

\* The writes the cartridge is driven with, as <<address, value>>: RAM enable
\* (0x0A, 0x00, 0x1A), ROM bank number (0, 1, 0x1F, 0x20, 0x45), RAM bank number
\* or upper bits of the ROM bank number (1, 2, 3, 4), mode select (0, 1, 2), and
\* cartridge RAM
MbcWrites ==
    {<<\h0000, \h0A>>, <<\h0000, \h00>>, <<\h1FFF, \h1A>>,
     <<\h2000, \h00>>, <<\h2000, \h01>>, <<\h3FFF, \h1F>>, <<\h2000, \h20>>,
     <<\h2000, \h45>>,
     <<\h4000, \h01>>, <<\h4000, \h02>>, <<\h5FFF, \h03>>, <<\h4000, \h04>>,
     <<\h6000, \h00>>, <<\h7FFF, \h01>>, <<\h6000, \h02>>,
     <<\hA000, \h11>>, <<\hA000, \h22>>}

\* gb_load_rom with the MBC1 ROM
InsertMbc1 == InsertRom(MbcROM)

\* AddressBus::write_byte(address, value) with an address of the cartridge
CartridgeWrite ==
    /\ ~panicked
    /\ cartridge.kind # "none"
    /\ ops < MaxMbcOps
    /\ \E w \in MbcWrites :
          \E b \in {bus_write_byte(Bus, w[1], w[2])} :
              /\ last_op' = [OpNew EXCEPT !.kind = "write", !.address = w[1], !.value = w[2]]
              /\ hist' = [hist EXCEPT !.cartridge = cartridge,
                                      !.enables = IF w[1] <= \h1FFF THEN Append(@, w[2])
                                                  ELSE @]
              /\ IF b.panic THEN Abort
                 ELSE /\ SetBus(b)
                      /\ UNCHANGED <<cpu, elapsed_cycles, running, frames, stdout, panicked>>
    /\ ops' = ops + 1
    /\ UNCHANGED overflow_checks

\* AddressBus::read_byte(0xA000): cartridge RAM
CartridgeRead ==
    /\ ~panicked
    /\ cartridge.kind # "none"
    /\ ops < MaxMbcOps
    /\ \E value \in {bus_read_byte(Bus, \hA000)} :
          /\ last_op' = [OpNew EXCEPT !.kind = "read", !.address = \hA000, !.result = value]
          /\ panicked' = (value = Panic)
    /\ ops' = ops + 1
    /\ UNCHANGED <<cpu, cartridge, wram, serial, timer, video, interrupts, hram,
                   elapsed_cycles, running, frames, stdout, overflow_checks, hist>>

NextMbc == InsertMbc1 \/ CartridgeWrite \/ CartridgeRead

SpecMbc == Init /\ [][NextMbc]_vars

\* The last operation was a write to an address in lo..hi
wrote(lo, hi) == last_op.kind = "write" /\ last_op.address >= lo /\ last_op.address <= hi

\* C24: after any sequence of writes to an MBC1 cartridge rom_bank is in 1..127;
\* a write of v to 0x2000-0x3FFF succeeds, sets the low 5 bits of rom_bank to
\* v & 0x1F, or to 1 if those are zero, and keeps its other bits.
C24_RomBank ==
    cartridge.kind = "MBC1" =>
        /\ cartridge.rom_bank \in 1..127
        /\ wrote(\h2000, \h3FFF) =>
              /\ ~panicked
              /\ cartridge.rom_bank % 32 =
                    (IF last_op.value % 32 = 0 THEN 1 ELSE last_op.value % 32)
              /\ cartridge.rom_bank \div 32 = hist.cartridge.rom_bank \div 32

\* C25: a write of v to 0x4000-0x5FFF succeeds; in ROM mode it sets bits 5-6
\* of rom_bank to the low two bits of v and keeps the rest of rom_bank and
\* ram_bank, in RAM mode it sets ram_bank to v (0-3) and keeps rom_bank; a write
\* of 0 / 1 to 0x6000-0x7FFF selects ROM / RAM mode.
C25_BankSelect ==
    /\ wrote(\h4000, \h5FFF) =>
          /\ ~panicked
          /\ IF hist.cartridge.bank_mode = "ROM"
             THEN /\ (cartridge.rom_bank \div 32) % 4 = last_op.value % 4
                  /\ cartridge.rom_bank % 32 = hist.cartridge.rom_bank % 32
                  /\ cartridge.ram_bank = hist.cartridge.ram_bank
             ELSE /\ cartridge.ram_bank = last_op.value
                  /\ cartridge.rom_bank = hist.cartridge.rom_bank
    /\ (wrote(\h6000, \h7FFF) /\ last_op.value \in {0, 1}) =>
          /\ ~panicked
          /\ cartridge.bank_mode = IF last_op.value = 0 THEN "ROM" ELSE "RAM"

\* Where the MBC1 keeps the byte of cartridge-RAM address a
ram_index(c, a) == c.ram_bank * \h2000 + a - \hA000

\* C26: cartridge RAM is enabled exactly when the last write to 0x0000-0x1FFF
\* had low nibble 0x0A (disabled before any); while it is disabled a read of
\* 0xA000-0xBFFF returns 0xFF and a write there leaves the RAM as it was; no
\* write outside 0xA000-0xBFFF changes the RAM, and a read while enabled
\* returns the byte a write while enabled stored, so data written while
\* enabled is read back after a disable/enable cycle.
C26_RamEnable ==
    cartridge.kind = "MBC1" =>
        /\ cartridge.ram_enabled =
              (hist.enables # <<>> /\ hist.enables[Len(hist.enables)] % 16 = \h0A)
        /\ (last_op.kind = "read" /\ ~cartridge.ram_enabled) =>
              last_op.result = \hFF
        /\ (last_op.kind = "read" /\ cartridge.ram_enabled) =>
              /\ ~panicked
              /\ last_op.result = Get(cartridge.ram, ram_index(cartridge, last_op.address), 0)
        /\ (wrote(\hA000, \hBFFF) /\ ~hist.cartridge.ram_enabled) =>
              ~panicked /\ cartridge.ram = hist.cartridge.ram
        /\ (wrote(\hA000, \hBFFF) /\ hist.cartridge.ram_enabled) =>
              /\ ~panicked
              /\ Get(cartridge.ram, ram_index(cartridge, last_op.address), 0) = last_op.value
        /\ (wrote(\h0000, \h7FFF) /\ ~panicked) => cartridge.ram = hist.cartridge.ram

\* C26 happens: RAM was enabled, written, disabled and enabled again, and the
\* byte written is read back
C26_Witness ==
    /\ ~panicked
    /\ hist.enables = <<\h0A, \h00, \h0A>>
    /\ last_op.kind = "read"
    /\ last_op.result = \h11

-----------------------------------------------------------------------------
(* More claims about the timer, under SpecInterrupts *)

\* How many of n increments of TIMA pass 0xFF, each reloading it with TMA
RECURSIVE overflow_count(_, _, _)
overflow_count(tima, tma, n) ==
    IF n = 0 THEN 0
    ELSE (IF tima = \hFF THEN 1 ELSE 0)
         + overflow_count(IF tima = \hFF THEN tma ELSE tima + 1, tma, n - 1)

\* The Timer interrupts the peripherals returned in the last step
timer_requests == Len(SelectSeq(hist.requested, LAMBDA i : i = "Timer"))

\* C27: a Timer::step call produces one Timer interrupt per overflow of TIMA
\* in it, also when several overflows occur in the one call.
C27_InterruptPerOverflow ==
    (iterated /\ ~panicked /\ timer_enabled(hist.timer)) =>
        timer_requests = overflow_count(hist.timer.tima, hist.timer.tma, increments)

\* C28: whatever TAC holds, after steps totalling N cycles since the last bus
\* write to DIV (or since the start) DIV is (DIV0 + (r0 + N) div 256) mod 256,
\* DIV0 and r0 < 256 being DIV and the remainder after that write; the remainder
\* kept between steps is below 256; and a bus write to DIV stores the byte
\* written.
C28_Divider ==
    (iterated /\ ~panicked) =>
        /\ hist.div_base.r < DIVIDER_PERIOD
        /\ timer.div =
              (hist.div_base.div + (hist.div_base.r + hist.div_base.fed) \div DIVIDER_PERIOD)
                 % 256
        /\ timer.divider_cycles = (hist.div_base.r + hist.div_base.fed) % DIVIDER_PERIOD
        /\ hist.div_base.written => hist.div_base.div = hist.cpu.a

\* C28 happens: with the timer running, DIV has wrapped from the 0xFF written
\* to it to 0x00
C28_Witness ==
    /\ iterated
    /\ ~panicked
    /\ timer_enabled(timer)
    /\ hist.div_base.div = \hFF
    /\ hist.div_base.r > 0
    /\ hist.div_base.fed >= DIVIDER_PERIOD
    /\ timer.div = 0

-----------------------------------------------------------------------------
(* More claims about the CPU, under SpecCpu *)

\* An offset byte as a signed 8-bit value
signed(e) == IF e < 128 THEN e ELSE e - 256

\* The last step fetched a JR e8, or a JR cc,e8 whose condition held (NZ, Z,
\* NC, C for 0x20, 0x28, 0x30, 0x38)
jumped ==
    /\ iterated
    /\ \/ last_op.value = \h18
       \/ last_op.value = \h20 /\ ~get_bit(hist.cpu.f, 7)
       \/ last_op.value = \h28 /\ get_bit(hist.cpu.f, 7)
       \/ last_op.value = \h30 /\ ~get_bit(hist.cpu.f, 4)
       \/ last_op.value = \h38 /\ get_bit(hist.cpu.f, 4)

\* C29: JR e8 and each taken JR cc,e8 succeeds and sets PC to the address of
\* the byte after the offset byte plus the offset as a signed 8-bit value,
\* modulo 2^16, for every offset byte, 0x80 (-128) included.
C29_RelativeJump ==
    jumped =>
        /\ ~panicked
        /\ cpu.pc = (last_op.address + 2
                     + signed(bus_read_byte(Bus, last_op.address + 1))) % 65536

\* The register an INC r8 or DEC r8 opcode names
named(opcode) ==
    CASE opcode \in {\h04, \h05} -> "b"
      [] opcode \in {\h0C, \h0D} -> "c"
      [] opcode \in {\h14, \h15} -> "d"
      [] opcode \in {\h1C, \h1D} -> "e"
      [] opcode \in {\h24, \h25} -> "h"
      [] opcode \in {\h2C, \h2D} -> "l"
      [] opcode \in {\h3C, \h3D} -> "a"

\* C30: after INC r8 / DEC r8 the register holds the value plus / minus 1
\* modulo 256, Z is set iff that is 0, H is set iff the low nibble before was
\* 0xF for INC or 0x0 for DEC, N is cleared by INC and set by DEC, and Carry
\* is as before.
C30_IncDec ==
    (iterated /\ last_op.value \in IncOpcodes \cup DecOpcodes) =>
        LET r == named(last_op.value)
            up == last_op.value \in IncOpcodes
            before == hist.cpu[r]
        IN  /\ ~panicked
            /\ cpu[r] = (IF up THEN before + 1 ELSE before + 255) % 256
            /\ get_bit(cpu.f, 7) = (cpu[r] = 0)
            /\ get_bit(cpu.f, 5) = (before % 16 = IF up THEN 15 ELSE 0)
            /\ get_bit(cpu.f, 6) = ~up
            /\ get_bit(cpu.f, 4) = get_bit(hist.cpu.f, 4)
            /\ cpu.f % 16 = 0

\* C30 happens: INC of a register other than A wraps 0xFF to 0 with Carry
\* clear, and Carry stays clear
C30_Witness ==
    /\ iterated
    /\ ~panicked
    /\ last_op.value = \h1C
    /\ hist.cpu.e = \hFF
    /\ cpu.e = 0
    /\ ~get_bit(hist.cpu.f, 4)
    /\ cpu.f = ZERO + HALF_CARRY

-----------------------------------------------------------------------------
(* More claims about run_frame, under SpecFrame *)

\* C31: run_frame runs no CPU step once the cycles accumulated in it have
\* reached 70,224: every iteration starts with fewer, also when an earlier one
\* left the count at exactly 70,224.
C31_StopsAtFrame ==
    (iterated /\ ~panicked) => elapsed_cycles - last_op.result < CPU_CYCLES_PER_FRAME

-----------------------------------------------------------------------------
(* More claims about interrupts, under SpecInterrupts *)

\* The bit of IE and IF of an interrupt
number(i) ==
    CASE i = "VBlank" -> 0 [] i = "LCDStat" -> 1 [] i = "Timer" -> 2 [] i = "Serial" -> 3
      [] i = "Joypad" -> 4

\* The peripherals returned interrupt number n in the last step
raised(n) == \E k \in DOMAIN hist.requested : number(hist.requested[k]) = n

\* C32: the interrupts Serial, Timer and the PPU raise while they catch up on
\* step k are posted after the CPU step of k: after the iteration IF is what
\* CPU::step left (what its instruction wrote included) with the bits of the
\* interrupts raised set besides, so these are set at the top of step k + 1;
\* and the CPU step of k dispatched only if IE & IF was not 0 at its top.
C32_PostedAfterStep ==
    (iterated /\ ~panicked) =>
        /\ \A n \in 0..7 : get_bit(interrupts.if, n) = (get_bit(hist.cpu_if, n) \/ raised(n))
        /\ hist.checked.handled => pending # 0

\* C32 happens: the instruction of the step wrote 0x00 to IF and the timer
\* overflowed in the catch-up of the step: IF is 0x04
C32_Witness ==
    /\ iterated
    /\ ~panicked
    /\ last_op.value = \hE0
    /\ bus_read_byte(Bus, last_op.address + 1) = \h0F
    /\ hist.interrupts.if # 0
    /\ hist.cpu_if = 0
    /\ raised(2)
    /\ interrupts.if = 4

\* Interrupt number n is enabled in IE and requested in IF at the top of the
\* last step
enabled_pending(n) == get_bit(hist.interrupts.ie, n) /\ get_bit(hist.interrupts.if, n)

\* C33: a dispatch services an interrupt whose bit is set in both IE and IF,
\* the lowest-numbered such bit: that bit is the one it clears in IF and the
\* one to whose vector it jumps; a step that does not dispatch clears no bit
\* of IF in handle_interrupts.
C33_ServicedEnabled ==
    /\ (iterated /\ hist.checked.handled) =>
          \E n \in 0..7 :
              /\ enabled_pending(n)
              /\ \A k \in 0..n - 1 : ~enabled_pending(k)
              /\ hist.checked.if = hist.interrupts.if - 2^n
              /\ ~hist.checked.panic => hist.checked.pc = vector(n)
    /\ (iterated /\ ~hist.checked.handled) => hist.checked.if = hist.interrupts.if

\* C33 happens: a lower interrupt that is not enabled is requested too, and
\* the enabled one above it is serviced
C33_Witness ==
    /\ iterated
    /\ ~panicked
    /\ hist.checked.handled
    /\ \E n \in 1..4 :
          /\ enabled_pending(n)
          /\ hist.checked.pc = vector(n)
          /\ ~get_bit(hist.checked.if, n)
          /\ \E k \in 0..n - 1 :
                /\ ~get_bit(hist.interrupts.ie, k)
                /\ get_bit(hist.interrupts.if, k)
                /\ get_bit(hist.checked.if, k)

-----------------------------------------------------------------------------
(* The PPU's line counter and mode cycles, under SpecFrame *)

\* C34: LY is in 0..153 after each Video::step and the CPU's step, a store to
\* 0xFF44 included, leaves it as it was; with the display enabled, mode VBlank
\* implies 143 <= LY <= 153 and any other mode implies LY <= 142.
C34_LineCounter ==
    /\ video.ly \in 0..LAST_LINE
    /\ iterated => hist.cpu_video.ly = hist.video.ly
    /\ display_enabled(video) =>
          IF video.mode = "VBlank" THEN video.ly \in VBLANK_START_LINE..LAST_LINE
          ELSE video.ly <= VBLANK_START_LINE - 1

\* C34 happens: the last step stored 0x99 to 0xFF44 in VBlank, with the display
\* on and LY another value
C34_Witness ==
    /\ iterated
    /\ ~panicked
    /\ last_op.value = \hE0
    /\ bus_read_byte(Bus, last_op.address + 1) = \h44
    /\ cpu.a = \h99
    /\ display_enabled(video)
    /\ video.mode = "VBlank"
    /\ hist.video.ly \in VBLANK_START_LINE + 1..LAST_LINE

\* C35: after every Video::step the accumulated mode cycles are below the
\* duration of the current mode (80 for OAMRead, 172 for VRAMRead, 204 for
\* HBlank, 456 for VBlank), whatever LCDC writes disabled and re-enabled the
\* display.
C35_ModeCycles ==
    (iterated /\ ~panicked) => video.mode_cycles < duration(video.mode)

\* The last step's Video::step left VRAMRead with the display and the sprites
\* on: it called render_scanline
rendering ==
    /\ iterated
    /\ display_enabled(hist.cpu_video)
    /\ sprites_enabled(hist.cpu_video)
    /\ hist.cpu_video.mode = "VRAMRead"
    /\ hist.cpu_video.mode_cycles + last_op.result >= VRAM_READ_CYCLES

\* The frame-buffer cells the model keeps outside row `line`
other_rows(line) ==
    {row * SCREEN_WIDTH + col : row \in (0..SCREEN_HEIGHT - 1) \ {line}, col \in 0..FbCols - 1}

\* C37: rendering a scanline with sprites enabled completes without error
\* whatever the sprites' y and x are, and writes no frame-buffer cell outside
\* the row of the current line.
C37_SpritesRender ==
    rendering =>
        /\ ~panicked
        /\ \A i \in other_rows(hist.cpu_video.ly) :
              Get(video.framebuffer, i, 0) = Get(hist.cpu_video.framebuffer, i, 0)

-----------------------------------------------------------------------------
(* The MBC1 with each RAM size of the header: cartridge writes and reads *)

\* MBC1 ROMs with no RAM, 2 KiB, 8 KiB and 32 KiB of RAM in the header
SizedROMs == {make_rom(<<>>, 1, code, BusData) : code \in 0..3}

\* gb_load_rom with one of the sized MBC1 ROMs
InsertSizedMbc1 == \E rom \in SizedROMs : InsertRom(rom)

NextMbcRam == InsertSizedMbc1 \/ CartridgeWrite \/ CartridgeRead

SpecMbcRam == Init /\ [][NextMbcRam]_vars

\* The last operation was a read or a write of cartridge RAM
accessed == last_op.kind = "read" \/ wrote(\hA000, \hBFFF)

\* C38: on MBC1, whenever cartridge RAM is enabled, an access to 0xA000-0xBFFF
\* succeeds and its index ram_bank * 0x2000 + (address - 0xA000) is inside the
\* RAM vector, for every RAM size of the header and every reachable ram_bank.
C38_RamIndex ==
    (cartridge.kind = "MBC1" /\ cartridge.ram_enabled /\ accessed) =>
        /\ ~panicked
        /\ ram_index(cartridge, last_op.address) < cartridge.ram_len

\* C39: a write of any byte to an MBC1 control range (0x0000-0x7FFF), in either
\* bank mode, raises no error and leaves ram_bank in 0..3 and bank_mode ROM or
\* RAM.
C39_ControlWrites ==
    (cartridge.kind = "MBC1" /\ wrote(\h0000, \h7FFF)) =>
        /\ ~panicked
        /\ cartridge.ram_bank \in 0..3
        /\ cartridge.bank_mode \in {"ROM", "RAM"}

-----------------------------------------------------------------------------
(* run_frame without a cartridge, under SpecFrame *)

\* C40: run_frame on a console with no cartridge inserted returns at once and
\* leaves every component as it was: with no cartridge yet, whatever calls of
\* run_frame there have been, the CPU, WRAM, HRAM, the timer, the serial port,
\* the PPU and IE/IF are as the console was constructed, no cycle has elapsed
\* and run_frame is not running.
C40_NoCartridge ==
    cartridge.kind = "none" =>
        /\ ~running
        /\ ~panicked
        /\ elapsed_cycles = 0
        /\ cpu = CpuNew
        /\ wram = Empty
        /\ hram = Empty
        /\ timer = TimerNew
        /\ serial = SerialNew
        /\ video = VideoNew
        /\ interrupts = InterruptsNew
        /\ stdout = <<>>

\* C40 happens: run_frame has been called with no cartridge and has returned
C40_Witness ==
    /\ cartridge.kind = "none"
    /\ last_op.kind = "run_frame"
    /\ frames = MaxFrames
    /\ ~running

-----------------------------------------------------------------------------
(* A halted CPU and the VBlank interrupt: run_frame called again and again,
   its loop running on while it may *)

\* DI or EI; IE written; HALT; NOP; loop
HaltPrograms ==
    {then_loop(<<p>> \o store(\hFF, ie) \o <<\h76, \h00>>) :
        p \in {\hF3, \hFB}, ie \in {\h01}}

\* gb_load_rom with the ROM of one of the halting programs
InsertHaltProgram == \E program \in HaltPrograms : InsertRom(make_rom(program, 0, 0, Empty))

NextHalt == InsertHaltProgram \/ RunFrameEnter \/ FrameStep \/ RunFrameReturn

\* FrameStep is enabled: run_frame is in its loop, whose test holds, and the
\* process has not panicked
Stepping == ~panicked /\ running /\ elapsed_cycles <= CPU_CYCLES_PER_FRAME

\* The host calls run_frame again when it has returned, the loop of run_frame
\* goes on to its next iteration, and run_frame returns when the loop has
\* ended: weak fairness of the three actions, that of FrameStep
\* (WF_vars(FrameStep)) written out with Stepping for ENABLED <<FrameStep>>_vars
SpecHalt ==
    /\ Init
    /\ [][NextHalt]_vars
    /\ WF_vars(RunFrameEnter)
    /\ WF_vars(RunFrameReturn)
    /\ (<>[]Stepping => []<><<FrameStep>>_vars)

\* The CPU is halted with IE bit 0 set and the display enabled, in a run_frame
\* after which another whole frame is run
halted_waiting ==
    /\ ~panicked
    /\ running
    /\ frames + 1 < MaxFrames
    /\ cpu.halt
    /\ get_bit(interrupts.ie, 0)
    /\ display_enabled(video)

\* C36: a CPU halted with IE bit 0 set and the display enabled and left enabled
\* eventually leaves the halted state, and it has not stayed halted for more
\* than one pass of LY through 0..153.
C36_HaltEnds ==
    /\ [](cpu.halt /\ get_bit(interrupts.ie, 0) /\ hist.always_on
            => hist.halted_for <= pass_cycles)
    /\ halted_waiting ~> ~cpu.halt

\* C36 happens: the CPU was halted while LY went from 0 up to 143, VBlank was
\* requested and the last step has un-halted the CPU
C36_Witness ==
    /\ iterated
    /\ ~panicked
    /\ hist.cpu.halt
    /\ ~cpu.halt
    /\ ~hist.cpu.ime
    /\ hist.interrupts.ie = \h01
    /\ hist.interrupts.if = \h01
    /\ display_enabled(video)
    /\ video.ly = VBLANK_START_LINE

====
